---- MODULE Spec2Model ----
(***************************************************************************)
(* Model of the ai-rss-reader background ingestion pipeline.               *)
(*                                                                         *)
(*   SpecQueue : one worker cycle (worker.ts main, phases 1, 2, 2.5, 3)    *)
(*               with the DomainQueueManager and processDomainQueue of     *)
(*               lib/crawler/domain-queue.ts driving Phase 2.              *)
(*   Spec      : the CrawlerStatus lease shared by worker processes and    *)
(*               the API process (worker.ts, index.ts, lib/db/index.ts).   *)
(*   FairSpec  : the lease from the row a shut-down API leaves behind,     *)
(*               with weak fairness on every step of a live process.       *)
(*   FairSpecQueue : SpecQueue with the event loop running and every       *)
(*               processor settling.                                       *)
(*   SpecStore : the article pipeline of lib/crawler/article.ts over the   *)
(*               articles, article_errors and blocked_domains tables.      *)
(*   SpecFetch : the same pipeline with every answer of the fetch (GET     *)
(*               status 401 included, the browser following a redirect)    *)
(*               and one answer of the Evaluator.                          *)
(*   SpecDao   : any sequence of calls of the DAO methods on these tables. *)
(*   SpecCollect : collectAllArticleUrls of lib/crawler/rss.ts over the    *)
(*               lists its feeds yield.                                    *)
(*   SpecBackfill : backfillImages (Phase 2.5) over stored rows.           *)
(*   SpecManager : any sequence of direct calls of the DomainQueueManager. *)
(*   SpecFeed  : collectFeedUrls resolving the items of one feed.          *)
(*   SpecBrowser : getBrowser and closeBrowser of the browser module       *)
(*               called by concurrent fetches.                             *)
(*   SpecPipeline : SpecStore without the ingest and retry routes of the   *)
(*               API: the pipeline calls of worker cycles only.            *)
(*   FairSpecBacklog : the Phase 3 of repeated cycles over a store with    *)
(*               up to 200 rows it cannot finish.                          *)
(***************************************************************************)
EXTENDS Integers, Sequences, FiniteSets, TLC

\* ------------------------------------------------------------------ bounds
MaxArticles == 3
MaxElapsedTicks == 3
TickMs == 50
StartMs == 1000
MaxPerDomain == 2
MaxTotal == 2
MaxSources == 2
MaxEvalConcurrency == 2
MaxWorkers == 2
MaxCollected == 1
MaxCalls == 2
MaxUrls == 1
MaxLimit == 2
MaxFeedItems == 2
TooShortLen == 10
ShortLen == 60
LongLen == 200
LongerLen == 201

\* ------------------------------------------------------- program constants
RetryPauseMs == 50
CheckSoonMs == 100
BackfillLimit == 100
MinReadable == 50
MinEvalLen == 200
ScoreThreshold10 == 35
Phase3Limit == 200

\* ------------------------------------------------------------------ values
NoHost == "none"
UnknownHost == "unknown"
AggregatorHost == "news.google.com"
HostA == "a.example"
HostB == "b.example"

\* worker_pid IS NULL
NoPid == 0

Min(a, b) == IF a < b THEN a ELSE b
Max(a, b) == IF a > b THEN a ELSE b

\* A URL is a record of its host and path; the empty host stands for a string
\* that new URL() rejects.
Url(h, p) == [host |-> h, path |-> p]
NoUrl == Url("", 0)

\* new URL(url).hostname, or the catch branch of extractDomain
Hostname(url) == IF url.host = "" THEN UnknownHost ELSE url.host

\* The collected item number i: odd items come through the aggregator and
\* resolve to host A, even items are direct links to host B.
QueuedArticle(i) ==
  IF i % 2 = 1
    THEN [id |-> i, url |-> Url(AggregatorHost, i), resolvedUrl |-> Url(HostA, i)]
    ELSE [id |-> i, url |-> Url(HostB, i), resolvedUrl |-> Url(HostB, i)]

ArticleIds == 1..MaxArticles

\* The lists collectAllArticleUrls can return: distinct keys, any order
CollectedLists ==
  {s \in UNION {[1..n -> ArticleIds] : n \in 0..MaxArticles} :
     \A j, k \in 1..Len(s) : j # k => s[j] # s[k]}

Range(s) == {s[i] : i \in 1..Len(s)}

\* --------------------------------------------------------------- variables
VARIABLES
  \* DomainQueueManager fields
  queues, activeCounts, lastRequestTime, totalActive, dqConfig, domainOrder,
  \* processDomainQueue locals
  activePromises, dpc, wakeAt,
  \* Date.now()
  now,
  \* worker.ts main locals of one cycle
  cphase, feedsPending, feedsActive, feedConcurrency,
  bfLeft, evalQueue, evalActive, evalConcurrency,
  \* store (articles table, as far as the cycle reads it; article_errors.phase)
  content, scored, errs,
  \* history
  dispatchLog, phaseLog,
  \* crawler_status row, rss_sources, articles and article_errors tables
  status, sources, articleRows, errorRows,
  \* worker processes: position in main, how each was launched, locals
  wpc, origin, excPending, toCrawl,
  \* history: the worker's check found a stale lease; its teardown was written
  sawStale, tornDown,
  \* history: DELETE /api/crawl has returned and no worker was started since
  stopReturned,
  \* the API process: between requests, or in POST /api/crawl before the spawn
  apc,
  \* per process: the updateCrawlerStatus call between its SELECT and its UPDATE
  ucs,
  \* articles, article_errors and blocked_domains tables, configs.discord_webhook_url
  articles, articleErrors, blockedDomains, webhookUrl,
  \* the pipeline calls in flight or returned, the Phase 3 work list
  calls, evalList,
  \* collectAllArticleUrls: what each source's collectFeedUrls yields, the
  \* concurrency argument, the loop index, allArticles, the returned list
  feedResults, concurrency, sourceIndex, allArticles, unique,
  \* backfillImages: its position and the articles still to visit
  backfill,
  \* a direct caller of the DomainQueueManager: its last call and the result
  returned,
  \* collectFeedUrls: its position, the batch index and the promises of the map
  feed,
  \* the browser module: browserInstance, the browsers ever launched, and
  \* the getBrowser and closeBrowser calls in progress
  browserInstance, browsers, bcalls

qvars == <<queues, activeCounts, lastRequestTime, totalActive, dqConfig, domainOrder,
           activePromises, dpc, wakeAt, now,
           cphase, feedsPending, feedsActive, feedConcurrency,
           bfLeft, evalQueue, evalActive, evalConcurrency,
           content, scored, errs, dispatchLog, phaseLog>>

lvars == <<status, sources, articleRows, errorRows, wpc, origin, excPending,
           toCrawl, sawStale, tornDown, stopReturned, apc, ucs>>

\* the direct caller, the feed being collected and the browser module
xvars == <<returned, feed, browserInstance, browsers, bcalls>>

cvars == <<feedResults, concurrency, sourceIndex, allArticles, unique, backfill, xvars>>

svars == <<articles, articleErrors, blockedDomains, webhookUrl, calls, evalList, cvars>>

vars == <<qvars, lvars, svars>>

\* the lease group without the crawler_status row
leaseRest == <<sources, articleRows, errorRows, wpc, origin, excPending, toCrawl,
               sawStale, tornDown, stopReturned, apc, ucs>>

\* ------------------------------------------------- DomainQueueManager
\* Map.get(k) ?? d
Get(map, k, d) == IF k \in DOMAIN map THEN map[k] ELSE d
\* Map.set(k, v)
Put(map, k, v) == [x \in (DOMAIN map) \cup {k} |-> IF x = k THEN v ELSE map[x]]

extractDomain(article) ==
  LET url == IF article.resolvedUrl # NoUrl THEN article.resolvedUrl ELSE article.url
  IN Hostname(url)

\* addArticles: the state of the three maps after pushing the list
RECURSIVE addArticles(_, _, _, _)
addArticles(list, q, ac, order) ==
  IF list = <<>> THEN [queues |-> q, activeCounts |-> ac, domainOrder |-> order]
  ELSE LET article == QueuedArticle(Head(list))
           domain == extractDomain(article)
           isNew == domain \notin DOMAIN q
           q1 == IF isNew THEN Put(q, domain, <<>>) ELSE q
           ac1 == IF isNew THEN Put(ac, domain, 0) ELSE ac
           order1 == IF isNew THEN Append(order, domain) ELSE order
       IN addArticles(Tail(list), Put(q1, domain, Append(q1[domain], article.id)),
                      ac1, order1)

\* The three per-host conditions of the scan in getNextAvailable
HostEligibleNoCap(domain, t) ==
  /\ Len(queues[domain]) # 0
  /\ ~(t - Get(lastRequestTime, domain, 0) < dqConfig.domainDelayMs)

HostEligibleNoDelay(domain, t) ==
  /\ Len(queues[domain]) # 0
  /\ ~(Get(activeCounts, domain, 0) >= dqConfig.maxConcurrentPerDomain)

HostEligible(domain, t) ==
  /\ Len(queues[domain]) # 0
  /\ ~(Get(activeCounts, domain, 0) >= dqConfig.maxConcurrentPerDomain)
  /\ ~(t - Get(lastRequestTime, domain, 0) < dqConfig.domainDelayMs)

\* getNextAvailable scanning the hosts from the last inserted one
getNextAvailableLastFirst(t) ==
  IF totalActive >= dqConfig.maxTotalConcurrent THEN NoHost
  ELSE LET idx == {i \in 1..Len(domainOrder) : HostEligible(domainOrder[i], t)}
       IN IF idx = {} THEN NoHost
          ELSE domainOrder[CHOOSE i \in idx : \A j \in idx : i >= j]

\* getNextAvailable: the host whose head is returned, or NoHost for null
getNextAvailable(t) ==
  IF totalActive >= dqConfig.maxTotalConcurrent THEN NoHost
  ELSE LET idx == {i \in 1..Len(domainOrder) : HostEligible(domainOrder[i], t)}
       IN IF idx = {} THEN NoHost
          ELSE domainOrder[CHOOSE i \in idx : \A j \in idx : i <= j]

\* getWaitTime without the early return of line 121
getWaitTimeNoEarlyReturn(t) ==
  IF totalActive >= dqConfig.maxTotalConcurrent THEN CheckSoonMs
  ELSE LET open == {i \in 1..Len(domainOrder) :
                      /\ Len(queues[domainOrder[i]]) # 0
                      /\ ~(Get(activeCounts, domainOrder[i], 0)
                             >= dqConfig.maxConcurrentPerDomain)}
           remaining(i) == dqConfig.domainDelayMs
                             - (t - Get(lastRequestTime, domainOrder[i], 0))
       IN IF open = {} THEN CheckSoonMs
          ELSE CHOOSE r \in {remaining(i) : i \in open} :
                 \A i \in open : r <= remaining(i)

\* getWaitTime
getWaitTime(t) ==
  IF totalActive >= dqConfig.maxTotalConcurrent THEN CheckSoonMs
  ELSE LET open == {i \in 1..Len(domainOrder) :
                      /\ Len(queues[domainOrder[i]]) # 0
                      /\ ~(Get(activeCounts, domainOrder[i], 0)
                             >= dqConfig.maxConcurrentPerDomain)}
           remaining(i) == dqConfig.domainDelayMs
                             - (t - Get(lastRequestTime, domainOrder[i], 0))
       IN IF \E i \in open : remaining(i) <= 0 THEN 0
          ELSE IF open = {} THEN CheckSoonMs
          ELSE CHOOSE r \in {remaining(i) : i \in open} :
                 \A i \in open : r <= remaining(i)

\* isEmpty
isEmpty ==
  /\ ~(totalActive > 0)
  /\ \A d \in DOMAIN queues : ~(Len(queues[d]) > 0)

\* markComplete: the new activeCounts and totalActive
markCompleteLeak(id) ==
  [activeCounts |-> activeCounts, totalActive |-> Max(0, totalActive - 1)]

\* markComplete without the two Math.max(0, ...)
markCompleteUnguarded(id) ==
  LET domain == extractDomain(QueuedArticle(id))
      current == Get(activeCounts, domain, 1)
  IN [activeCounts |-> Put(activeCounts, domain, current - 1),
      totalActive |-> totalActive - 1]

markComplete(id) ==
  LET domain == extractDomain(QueuedArticle(id))
      current == Get(activeCounts, domain, 1)
  IN [activeCounts |-> Put(activeCounts, domain, Max(0, current - 1)),
      totalActive |-> Max(0, totalActive - 1)]

\* ------------------------------------------------------------ one cycle
CrawlOutcomes == {"long", "short", "error", "reject"}

QueueStart ==
  /\ queues = << >> /\ activeCounts = << >> /\ lastRequestTime = << >>
  /\ totalActive = 0 /\ domainOrder = <<>>
  /\ dqConfig \in [maxConcurrentPerDomain : 1..MaxPerDomain,
                   maxTotalConcurrent : 1..MaxTotal,
                   domainDelayMs : {0, TickMs}]
  /\ activePromises = {} /\ dpc = "none" /\ wakeAt = 0
  /\ now = StartMs
  /\ cphase = "start"
  /\ feedsPending \in 1..MaxSources /\ feedsActive = 0
  /\ feedConcurrency \in 1..MaxSources
  /\ bfLeft = 0 /\ evalQueue = <<>> /\ evalActive = {}
  /\ evalConcurrency = 0
  /\ content = [i \in ArticleIds |-> "none"]
  /\ scored = {}
  /\ errs = [i \in ArticleIds |-> "none"]
  /\ dispatchLog = << >> /\ phaseLog = <<>>

dqVars == <<queues, activeCounts, lastRequestTime, totalActive, domainOrder>>
driverVars == <<activePromises, dpc, wakeAt>>
cfgVars == <<dqConfig, evalConcurrency>>
storeVars == <<content, scored, errs>>
evalVars == <<bfLeft, evalQueue, evalActive>>
feedVars == <<feedsPending, feedsActive, feedConcurrency>>

\* Date.now() advances while the driver is suspended (the clock is read by the
\* queue manager only; a synchronous loop iteration takes no time)
Tick ==
  /\ cphase = "phase2" /\ dpc \in {"race", "pause", "drain"}
  /\ now + TickMs <= StartMs + MaxElapsedTicks * TickMs
  /\ now' = now + TickMs
  /\ UNCHANGED <<lvars, svars, dqVars, driverVars, cfgVars, storeVars, evalVars, feedVars,
                 cphase, dispatchLog, phaseLog>>

\* Phase 1: collectAllArticleUrls starts a batch of collectFeedUrls
FeedBatchStart ==
  /\ cphase \in {"start", "phase1"}
  /\ feedsActive = 0 /\ feedsPending > 0
  /\ cphase' = "phase1"
  /\ phaseLog' = IF cphase = "start" THEN Append(phaseLog, "1") ELSE phaseLog
  /\ feedsActive' = Min(feedConcurrency, feedsPending)
  /\ feedsPending' = feedsPending - Min(feedConcurrency, feedsPending)
  /\ UNCHANGED <<lvars, svars, feedConcurrency, dqVars, driverVars, cfgVars, storeVars, evalVars, now, dispatchLog>>

\* one collectFeedUrls promise settles
FeedSettle ==
  /\ cphase = "phase1" /\ feedsActive > 0
  /\ feedsActive' = feedsActive - 1
  /\ UNCHANGED <<lvars, svars, feedConcurrency, dqVars, driverVars, cfgVars, storeVars, evalVars, now, cphase,
                 feedsPending, dispatchLog, phaseLog>>

\* collectAllArticleUrls returned an empty list: Phase 2 is skipped
NothingCollected ==
  /\ cphase = "phase1" /\ feedsActive = 0 /\ feedsPending = 0
  /\ cphase' = "collected0"
  /\ feedConcurrency' = 0
  /\ UNCHANGED <<lvars, svars, dqVars, driverVars, cfgVars, storeVars, evalVars, feedsPending,
                 feedsActive, now, dispatchLog, phaseLog>>

\* Phase 2 begins with the collected list: new DomainQueueManager, addArticles,
\* processDomainQueue
StartPhase2(list) ==
  /\ cphase = "phase1" /\ feedsActive = 0 /\ feedsPending = 0
  /\ Len(list) > 0
  /\ LET m == addArticles(list, << >>, << >>, <<>>)
     IN /\ queues' = m.queues
        /\ activeCounts' = m.activeCounts
        /\ domainOrder' = m.domainOrder
  /\ cphase' = "phase2" /\ dpc' = "loop"
  /\ phaseLog' = Append(phaseLog, "2")
  /\ feedConcurrency' = 0
  /\ UNCHANGED <<lvars, svars, lastRequestTime, totalActive, activePromises, wakeAt, cfgVars,
                 storeVars, evalVars, feedsPending, feedsActive, now, dispatchLog>>

\* one loop iteration of processDomainQueue that starts a processor
DriverDispatch ==
  /\ cphase = "phase2" /\ dpc = "loop" /\ ~isEmpty
  /\ getNextAvailable(now) # NoHost
  /\ LET domain == getNextAvailable(now)
         id == Head(queues[domain])
     IN /\ queues' = [queues EXCEPT ![domain] = Tail(@)]
        /\ activeCounts' = Put(activeCounts, domain, Get(activeCounts, domain, 0) + 1)
        /\ lastRequestTime' = Put(lastRequestTime, domain, now)
        /\ totalActive' = totalActive + 1
        /\ activePromises' = activePromises \cup {id}
        /\ dispatchLog' = Put(dispatchLog, domain,
                              Append(Get(dispatchLog, domain, <<>>), now))
  /\ UNCHANGED <<lvars, svars, domainOrder, dpc, wakeAt, cfgVars, storeVars, evalVars, feedVars,
                 now, cphase, phaseLog>>

\* one loop iteration that finds nothing to start while processors run
DriverRace ==
  /\ cphase = "phase2" /\ dpc = "loop" /\ ~isEmpty
  /\ getNextAvailable(now) = NoHost
  /\ activePromises # {}
  /\ getWaitTime(now) > 0
  /\ dpc' = "race" /\ wakeAt' = now + getWaitTime(now)
  /\ UNCHANGED <<lvars, svars, dqVars, activePromises, cfgVars, storeVars, evalVars, feedVars,
                 now, cphase, dispatchLog, phaseLog>>

\* one loop iteration that finds nothing to start and nothing running
DriverPause ==
  /\ cphase = "phase2" /\ dpc = "loop" /\ ~isEmpty
  /\ getNextAvailable(now) = NoHost
  /\ activePromises = {}
  /\ dpc' = "pause" /\ wakeAt' = now + RetryPauseMs
  /\ UNCHANGED <<lvars, svars, dqVars, activePromises, cfgVars, storeVars, evalVars, feedVars,
                 now, cphase, dispatchLog, phaseLog>>

\* the setTimeout of the race or of the pause fires
DriverTimer ==
  /\ cphase = "phase2" /\ dpc \in {"race", "pause"}
  /\ now >= wakeAt
  /\ dpc' = "loop" /\ wakeAt' = 0
  /\ UNCHANGED <<lvars, svars, dqVars, activePromises, cfgVars, storeVars, evalVars,
                 feedVars, now, cphase, dispatchLog, phaseLog>>

\* the while loop ends; lines 214-217 wait for what is left
DriverReturn ==
  /\ cphase = "phase2" /\ dpc = "loop" /\ isEmpty
  /\ dpc' = IF activePromises = {} THEN "returned" ELSE "drain"
  /\ UNCHANGED <<lvars, svars, dqVars, activePromises, wakeAt, cfgVars, storeVars, evalVars,
                 feedVars, now, cphase, dispatchLog, phaseLog>>

\* worker.ts 146-151: the finally block of main writes the row
Finally(row) ==
  [row EXCEPT !.is_crawling = 0, !.current_task = "Idle", !.worker_pid = NoPid]

\* a processor settles: crawlAndSaveArticle stored content, logged a CRAWL
\* error, or the processor itself threw (its status update at worker.ts 84
\* is outside crawlAndSaveArticle's try); then the finally of the wrapper. A
\* rejection reaches the race, processDomainQueue throws and main goes to its
\* finally block.
TaskSettle(id, outcome) ==
  /\ id \in activePromises
  /\ dpc # "loop"
  /\ LET m == markComplete(id)
     IN /\ activeCounts' = m.activeCounts
        /\ totalActive' = m.totalActive
  /\ activePromises' = activePromises \ {id}
  /\ content' = IF outcome \in {"long", "short"}
                  THEN [content EXCEPT ![id] = outcome] ELSE content
  /\ dpc' = CASE dpc = "race" /\ outcome = "reject" -> "threw"
              [] dpc = "race" -> "loop"
              [] dpc = "drain" /\ activePromises \ {id} = {} -> "returned"
              [] OTHER -> dpc
  /\ cphase' = IF dpc = "race" /\ outcome = "reject" THEN "done" ELSE cphase
  /\ status' = IF dpc = "race" /\ outcome = "reject" THEN Finally(status) ELSE status
  /\ errs' = IF outcome = "error" THEN [errs EXCEPT ![id] = "CRAWL"] ELSE errs
  /\ wakeAt' = IF dpc = "race" THEN 0 ELSE wakeAt
  /\ UNCHANGED <<leaseRest, svars, queues, lastRequestTime, domainOrder, cfgVars, scored,
                 evalVars, feedVars, now, dispatchLog, phaseLog>>

\* worker.ts:79 `await processDomainQueue(...)` has returned
ProcessDomainQueueNotAwaited == TRUE

ProcessDomainQueueAwaited == dpc = "returned"

Rows == {i \in ArticleIds : content[i] # "none"}

\* closeBrowser, then Phase 2.5: backfillImages reads the articles without image.
\* The queue manager and the driver's locals go out of scope.
StartPhase25 ==
  /\ \/ cphase = "collected0"
     \/ cphase = "phase2" /\ ProcessDomainQueueAwaited
  /\ cphase' = "phase25"
  /\ phaseLog' = Append(phaseLog, "2.5")
  /\ bfLeft' \in 0..Min(BackfillLimit, Cardinality(Rows))
  /\ IF activePromises = {}
       THEN /\ queues' = << >> /\ activeCounts' = << >> /\ lastRequestTime' = << >>
            /\ totalActive' = 0 /\ domainOrder' = <<>>
            /\ dpc' = "none" /\ wakeAt' = 0 /\ dispatchLog' = << >>
       ELSE UNCHANGED <<dqVars, dpc, wakeAt, dispatchLog>>
  /\ UNCHANGED <<lvars, svars, activePromises, cfgVars, storeVars, evalQueue, evalActive,
                 feedVars, now>>

\* one iteration of the backfill loop (processArticle, saveArticle, 1 s sleep)
BackfillStep ==
  /\ cphase = "phase25" /\ bfLeft > 0
  /\ bfLeft' = bfLeft - 1
  /\ UNCHANGED <<lvars, svars, dqVars, driverVars, cfgVars, storeVars, evalQueue, evalActive,
                 feedVars, now, cphase, dispatchLog, phaseLog>>

\* getUnprocessedArticles: average_score IS NULL OR length(content) < 200
RECURSIVE SeqOfSet(_)
SeqOfSet(S) ==
  IF S = {} THEN <<>>
  ELSE LET x == CHOOSE y \in S : \A z \in S : y <= z
       IN <<x>> \o SeqOfSet(S \ {x})

getUnprocessedArticles ==
  SeqOfSet({i \in Rows : i \notin scored \/ content[i] = "short"})

\* Phase 3 begins
StartPhase3 ==
  /\ cphase = "phase25" /\ bfLeft = 0
  /\ cphase' = "phase3"
  /\ phaseLog' = Append(phaseLog, "3")
  /\ evalQueue' = getUnprocessedArticles
  /\ evalConcurrency' \in 1..MaxEvalConcurrency
  /\ UNCHANGED <<lvars, svars, dqVars, driverVars, dqConfig, storeVars, bfLeft, evalActive,
                 feedVars, now, dispatchLog>>

\* evaluateExistingArticle reaches evaluateArticle for these
NeedsEvaluator(i) == content[i] = "long" /\ i \notin scored

\* a batch of Phase 3 starting without the await of the previous allSettled
EvalBatchStartUnawaited ==
  /\ cphase = "phase3" /\ evalQueue # <<>>
  /\ LET n == Min(evalConcurrency, Len(evalQueue))
         batch == {evalQueue[k] : k \in 1..n}
     IN /\ evalActive' = evalActive \cup {i \in batch : NeedsEvaluator(i)}
        /\ evalQueue' = SubSeq(evalQueue, n + 1, Len(evalQueue))
  /\ UNCHANGED <<lvars, svars, dqVars, driverVars, cfgVars, storeVars, bfLeft, feedVars, now,
                 cphase, dispatchLog, phaseLog>>

\* one batch of Phase 3 starts: batch.map(async ...) runs each item up to its
\* first await
EvalBatchStart ==
  /\ cphase = "phase3" /\ evalActive = {} /\ evalQueue # <<>>
  /\ LET n == Min(evalConcurrency, Len(evalQueue))
         batch == {evalQueue[k] : k \in 1..n}
     IN /\ evalActive' = {i \in batch : NeedsEvaluator(i)}
        /\ evalQueue' = SubSeq(evalQueue, n + 1, Len(evalQueue))
  /\ UNCHANGED <<lvars, svars, dqVars, driverVars, cfgVars, storeVars, bfLeft, feedVars, now,
                 cphase, dispatchLog, phaseLog>>

\* evaluateArticle returns or throws for one item, with the exception leaving
\* evaluateExistingArticle and a batch awaited with Promise.all
EvalSettleRethrown(i, ok) ==
  /\ i \in evalActive
  /\ scored' = IF ok THEN scored \cup {i} ELSE scored
  /\ errs' = IF ok THEN [errs EXCEPT ![i] = "none"] ELSE errs
  /\ evalActive' = IF ok THEN evalActive \ {i} ELSE {}
  /\ evalQueue' = IF ok THEN evalQueue ELSE <<>>
  /\ cphase' = IF ok THEN cphase ELSE "done"
  /\ status' = IF ok THEN status ELSE Finally(status)
  /\ UNCHANGED <<leaseRest, svars, dqVars, driverVars, cfgVars, content, bfLeft, feedVars,
                 now, dispatchLog, phaseLog>>

\* evaluateArticle returns or throws for one item: evaluateExistingArticle
\* saves the scores and clears the error (article.ts 261-280), or catches
\* and logs an EVAL error (281-290); the batch is awaited with allSettled
EvalSettle(i, ok) ==
  /\ i \in evalActive
  /\ evalActive' = evalActive \ {i}
  /\ scored' = IF ok THEN scored \cup {i} ELSE scored
  /\ errs' = [errs EXCEPT ![i] = IF ok THEN "none" ELSE "EVAL"]
  /\ UNCHANGED <<lvars, svars, dqVars, driverVars, cfgVars, content, bfLeft, evalQueue, feedVars,
                 now, cphase, dispatchLog, phaseLog>>

\* the finally block after Phase 3
CycleEnd ==
  /\ cphase = "phase3" /\ evalActive = {} /\ evalQueue = <<>>
  /\ cphase' = "done"
  /\ status' = Finally(status)
  /\ UNCHANGED <<leaseRest, svars, dqVars, driverVars, cfgVars, storeVars, evalVars, feedVars, now, dispatchLog, phaseLog>>

QueueNext ==
  \/ Tick
  \/ FeedBatchStart
  \/ FeedSettle
  \/ NothingCollected
  \/ \E list \in CollectedLists : StartPhase2(list)
  \/ DriverDispatch
  \/ DriverRace
  \/ DriverPause
  \/ DriverTimer
  \/ DriverReturn
  \/ \E id \in ArticleIds, outcome \in CrawlOutcomes : TaskSettle(id, outcome)
  \/ StartPhase25
  \/ BackfillStep
  \/ StartPhase3
  \/ EvalBatchStart
  \/ \E i \in ArticleIds, ok \in BOOLEAN : EvalSettle(i, ok)
  \/ CycleEnd



\* ------------------------------------------------ CrawlerStatus lease
Workers == 1..MaxWorkers
Api == 0
Procs == {Api} \cup Workers

\* process ids: the worker process, the `npx ts-node` child the API spawns it
\* through (process.ppid of that worker), and the shell of a manual `pnpm worker`
WorkerPid(w) == w
LauncherPid(w) == MaxWorkers + w
ShellPid == 0 - 1
Null == "null"
NoTime == 0
Now == 1
NoCall == [arg |-> << >>, current |-> << >>]

GoogleFeed == "google.com"
DefaultFeed == "rss.nytimes.com"

Fields == {"is_crawling", "last_run", "current_task", "articles_processed",
           "last_error", "worker_pid"}

\* the row the schema seeds: (id, is_crawling, articles_processed) = (1, 0, 0)
SeedStatus ==
  [is_crawling |-> 0, last_run |-> NoTime, current_task |-> Null,
   articles_processed |-> 0, last_error |-> Null, worker_pid |-> NoPid]

\* a process that has been started and has neither returned nor been signalled;
\* it lives until its last UPDATE is written
Alive(w) ==
  /\ wpc[w] \notin {"idle", "exited", "killed"}
  /\ ~(wpc[w] \in {"done", "failed"} /\ ucs[w] = NoCall)

\* process.kill(pid, 0) does not throw
PidAlive(pid) ==
  \E w \in Workers :
    /\ Alive(w)
    /\ \/ pid = WorkerPid(w)
       \/ origin[w] = "api" /\ pid = LauncherPid(w)

ParentPid(w) == IF origin[w] = "api" THEN LauncherPid(w) ELSE ShellPid

\* DAO.updateCrawlerStatus, first statement: SELECT the current row; of the row
\* read, only the columns the caller did not supply are used afterwards
UcsSelect(arg) ==
  [arg |-> arg, current |-> [f \in Fields \ DOMAIN arg |-> status[f]]]

\* DAO.updateCrawlerStatus, `updated`: supplied fields, others from `current`
UcsUpdated(call) ==
  [f \in Fields |-> IF f \in DOMAIN call.arg THEN call.arg[f] ELSE call.current[f]]

LeaseStart ==
  /\ status = SeedStatus
  /\ sources \in {{}, {GoogleFeed}}
  /\ articleRows = {} /\ errorRows = {}
  /\ wpc = [w \in Workers |-> "idle"]
  /\ origin = [w \in Workers |-> "none"]
  /\ excPending = [w \in Workers |-> FALSE]
  /\ toCrawl = [w \in Workers |-> 0]
  /\ sawStale = [w \in Workers |-> FALSE]
  /\ tornDown = [w \in Workers |-> FALSE]
  /\ stopReturned = FALSE
  /\ apc = "up"
  /\ ucs = [p \in Procs |-> NoCall]

\* the next process to be started
IsNextWorker(w) ==
  /\ wpc[w] = "idle"
  /\ \A v \in Workers : v < w => wpc[v] # "idle"

\* index.ts 233: what DELETE /api/crawl writes
StopArg == [is_crawling |-> 0, current_task |-> "Stopped", worker_pid |-> NoPid]

\* worker.ts 147-151: what the finally block writes
TeardownArg == [is_crawling |-> 0, current_task |-> "Idle", worker_pid |-> NoPid]

\* DAO.updateCrawlerStatus, second statement: UPDATE all six columns
UcsWrite(p) ==
  /\ ucs[p] # NoCall
  /\ status' = UcsUpdated(ucs[p])
  /\ ucs' = [ucs EXCEPT ![p] = NoCall]
  /\ tornDown' = [w \in Workers |->
                    \/ tornDown[w]
                    \/ w = p /\ ucs[p].arg = TeardownArg]
  /\ stopReturned' = (stopReturned \/ (p = Api /\ ucs[p].arg = StopArg))
  /\ UNCHANGED <<qvars, svars, sources, articleRows, errorRows, wpc, origin, excPending,
                 toCrawl, sawStale, apc>>

\* `pnpm worker` from a shell
ManualStart(w) ==
  /\ IsNextWorker(w)
  /\ wpc' = [wpc EXCEPT ![w] = "check"]
  /\ origin' = [origin EXCEPT ![w] = "manual"]
  /\ stopReturned' = FALSE
  /\ UNCHANGED <<qvars, svars, status, sources, articleRows, errorRows, excPending,
                 toCrawl, sawStale, tornDown, apc, ucs>>

\* worker.ts 12-24: the worker must leave because another live worker holds
\* the lease
MustExitAlways(w) ==
  /\ status.is_crawling = 1 /\ status.worker_pid # NoPid

MustExitInverted(w) ==
  /\ status.is_crawling = 1 /\ status.worker_pid # NoPid
  /\ ~PidAlive(status.worker_pid)
  /\ status.worker_pid # WorkerPid(w) /\ status.worker_pid # ParentPid(w)

MustExit(w) ==
  /\ status.is_crawling = 1 /\ status.worker_pid # NoPid
  /\ PidAlive(status.worker_pid)
  /\ status.worker_pid # WorkerPid(w) /\ status.worker_pid # ParentPid(w)

\* worker.ts 12-24: singleton check
WorkerCheck(w) ==
  /\ wpc[w] = "check"
  /\ wpc' = [wpc EXCEPT ![w] = IF MustExit(w) THEN "exited" ELSE "acquire"]
  /\ sawStale' = [sawStale EXCEPT ![w] =
                    /\ status.is_crawling = 1 /\ status.worker_pid # NoPid
                    /\ ~PidAlive(status.worker_pid)]
  /\ UNCHANGED <<qvars, svars, stopReturned, status, sources, articleRows, errorRows, origin,
                 excPending, toCrawl, tornDown, apc, ucs>>

\* a step of main that calls updateCrawlerStatus(arg) and moves on to `next`
WorkerUpdate(w, from, arg, next) ==
  /\ wpc[w] = from /\ ucs[w] = NoCall
  /\ ucs' = [ucs EXCEPT ![w] = UcsSelect(arg)]
  /\ wpc' = [wpc EXCEPT ![w] = next]

\* worker.ts 26-31: lease acquisition
WorkerAcquire(w) ==
  /\ WorkerUpdate(w, "acquire",
                  [is_crawling |-> 1, worker_pid |-> WorkerPid(w), last_run |-> Now,
                   current_task |-> "Initializing"],
                  "bootstrap")
  /\ UNCHANGED <<qvars, svars, stopReturned, status, sources, articleRows, errorRows, origin,
                 excPending, toCrawl, sawStale, tornDown, apc>>

\* worker.ts 33-44: default feed and config load; a throw here is outside try
WorkerBootstrap(w, throws) ==
  /\ wpc[w] = "bootstrap" /\ ucs[w] = NoCall
  /\ IF throws
       THEN /\ wpc' = [wpc EXCEPT ![w] = "handler"]
            /\ UNCHANGED sources
       ELSE /\ wpc' = [wpc EXCEPT ![w] = "phase1"]
            /\ LET kept == IF sources = {GoogleFeed} THEN {} ELSE sources
               IN sources' = IF kept = {} THEN {DefaultFeed} ELSE kept
  /\ UNCHANGED <<qvars, svars, stopReturned, status, articleRows, errorRows, origin, excPending,
                 toCrawl, sawStale, tornDown, apc, ucs>>

\* worker.ts 50-53
WorkerPhase1(w) ==
  /\ WorkerUpdate(w, "phase1",
                  [current_task |-> "Phase 1", articles_processed |-> 0], "collect")
  /\ UNCHANGED <<qvars, svars, stopReturned, status, sources, articleRows, errorRows, origin,
                 excPending, toCrawl, sawStale, tornDown, apc>>

\* worker.ts 55-61: collectAllArticleUrls returns n items
WorkerCollected(w, n) ==
  /\ wpc[w] = "collect" /\ ucs[w] = NoCall
  /\ toCrawl' = [toCrawl EXCEPT ![w] = n]
  /\ wpc' = [wpc EXCEPT ![w] = IF n > 0 THEN "phase2" ELSE "phase25"]
  /\ UNCHANGED <<qvars, svars, stopReturned, status, sources, articleRows, errorRows, origin,
                 excPending, sawStale, tornDown, apc, ucs>>

\* worker.ts 62-65
WorkerPhase2(w) ==
  /\ WorkerUpdate(w, "phase2",
                  [current_task |-> "Phase 2", articles_processed |-> 0], "crawl")
  /\ UNCHANGED <<qvars, svars, stopReturned, status, sources, articleRows, errorRows, origin,
                 excPending, toCrawl, sawStale, tornDown, apc>>

\* worker.ts 81-87: the processor's status update at a dispatch
WorkerCrawlDispatch(w) ==
  /\ toCrawl[w] > 0
  /\ WorkerUpdate(w, "crawl",
                  [current_task |-> "Phase 2", articles_processed |-> 1], "crawling")
  /\ UNCHANGED <<qvars, svars, stopReturned, status, sources, articleRows, errorRows, origin,
                 excPending, toCrawl, sawStale, tornDown, apc>>

\* worker.ts 89-93: crawlAndSaveArticle saves the article or logs a CRAWL error
WorkerCrawlSettle(w, ok) ==
  /\ wpc[w] = "crawling" /\ ucs[w] = NoCall
  /\ articleRows' = IF ok THEN articleRows \cup {1} ELSE articleRows
  /\ errorRows' = IF ok THEN errorRows ELSE errorRows \cup {1}
  /\ toCrawl' = [toCrawl EXCEPT ![w] = @ - 1]
  /\ wpc' = [wpc EXCEPT ![w] = IF toCrawl[w] > 1 THEN "crawl" ELSE "phase25"]
  /\ UNCHANGED <<qvars, svars, stopReturned, status, sources, origin, excPending, sawStale, tornDown, apc, ucs>>

\* worker.ts 100-106
WorkerPhase25(w) ==
  /\ WorkerUpdate(w, "phase25", [current_task |-> "Phase 2.5"], "backfill")
  /\ UNCHANGED <<qvars, svars, stopReturned, status, sources, articleRows, errorRows, origin,
                 excPending, toCrawl, sawStale, tornDown, apc>>

\* worker.ts 106-119: backfillImages returns; Phase 3 reads the unprocessed set
WorkerPhase3(w) ==
  /\ wpc[w] = "backfill" /\ ucs[w] = NoCall
  /\ IF articleRows # {}
       THEN /\ ucs' = [ucs EXCEPT ![w] =
                         UcsSelect([current_task |-> "Phase 3",
                                    articles_processed |-> 0])]
            /\ wpc' = [wpc EXCEPT ![w] = "eval"]
       ELSE /\ wpc' = [wpc EXCEPT ![w] = "finally"]
            /\ UNCHANGED ucs
  /\ UNCHANGED <<qvars, svars, stopReturned, status, sources, articleRows, errorRows, origin,
                 excPending, toCrawl, sawStale, tornDown, apc>>

\* worker.ts 128-138: one evaluation settles and reports progress
WorkerEval(w, ok) ==
  /\ WorkerUpdate(w, "eval",
                  [current_task |-> "Phase 3", articles_processed |-> 1], "finally")
  /\ errorRows' = IF ok THEN errorRows \ {1} ELSE errorRows \cup {1}
  /\ UNCHANGED <<qvars, svars, stopReturned, status, sources, articleRows, origin, excPending,
                 toCrawl, sawStale, tornDown, apc>>

InTry == {"phase1", "collect", "phase2", "crawl", "crawling", "phase25", "backfill",
          "eval"}

\* an exception inside the try block reaches the finally block
WorkerThrow(w) ==
  /\ wpc[w] \in InTry /\ ucs[w] = NoCall
  /\ excPending' = [excPending EXCEPT ![w] = TRUE]
  /\ wpc' = [wpc EXCEPT ![w] = "finally"]
  /\ toCrawl' = [toCrawl EXCEPT ![w] = 0]
  /\ UNCHANGED <<qvars, svars, stopReturned, status, sources, articleRows, errorRows, origin,
                 sawStale, tornDown, apc, ucs>>

\* worker.ts 146-151: teardown
WorkerTeardown(w) ==
  /\ WorkerUpdate(w, "finally", TeardownArg, "closing")
  /\ UNCHANGED <<qvars, svars, stopReturned, status, sources, articleRows, errorRows, origin,
                 excPending, toCrawl, sawStale, tornDown, apc>>

\* worker.ts 152-155: closeBrowser returns; main resolves or rejects
WorkerClosed(w) ==
  /\ wpc[w] = "closing" /\ ucs[w] = NoCall
  /\ wpc' = [wpc EXCEPT ![w] = IF excPending[w] THEN "handler" ELSE "done"]
  /\ excPending' = [excPending EXCEPT ![w] = FALSE]
  /\ UNCHANGED <<qvars, svars, stopReturned, status, sources, articleRows, errorRows, origin,
                 toCrawl, sawStale, tornDown, apc, ucs>>

\* worker.ts 157-160: main().catch
WorkerHandler(w) ==
  /\ WorkerUpdate(w, "handler", [is_crawling |-> 0, last_error |-> "error"],
                  "failed")
  /\ UNCHANGED <<qvars, svars, stopReturned, status, sources, articleRows, errorRows, origin,
                 excPending, toCrawl, sawStale, tornDown, apc>>

\* process.kill(-pid, 'SIGTERM'), falling back to process.kill(pid, 'SIGTERM'):
\* worker.ts installs no handler, so the signalled worker stops where it is
Signalled(pid) ==
  {w \in Workers : /\ Alive(w)
                   /\ \/ pid = WorkerPid(w)
                      \/ origin[w] = "api" /\ pid = LauncherPid(w)}

AfterSignal(pid) ==
  /\ wpc' = [w \in Workers |-> IF w \in Signalled(pid) THEN "killed" ELSE wpc[w]]
  /\ ucs' = [p \in Procs |-> IF p \in Signalled(pid) THEN NoCall ELSE ucs[p]]

\* index.ts 187-198: POST /api/crawl refuses, or clears a stale lease
ApiStartCheck ==
  /\ apc = "up" /\ ucs[Api] = NoCall
  /\ status.is_crawling = 1 /\ status.worker_pid # NoPid
  /\ IF PidAlive(status.worker_pid)
       THEN UNCHANGED <<ucs, apc>>
       ELSE /\ ucs' = [ucs EXCEPT ![Api] =
                         UcsSelect([is_crawling |-> 0, worker_pid |-> NoPid])]
            /\ apc' = "spawn"
  /\ stopReturned' = FALSE
  /\ UNCHANGED <<qvars, svars, status, sources, articleRows, errorRows, wpc, origin,
                 excPending, toCrawl, sawStale, tornDown>>

\* index.ts 200-220: POST /api/crawl spawns the worker and writes its pid
ApiSpawn(w) ==
  /\ ucs[Api] = NoCall
  /\ \/ apc = "spawn"
     \/ apc = "up" /\ ~(status.is_crawling = 1 /\ status.worker_pid # NoPid)
  /\ IsNextWorker(w)
  /\ wpc' = [wpc EXCEPT ![w] = "check"]
  /\ origin' = [origin EXCEPT ![w] = "api"]
  /\ ucs' = [ucs EXCEPT ![Api] =
               UcsSelect([is_crawling |-> 1, worker_pid |-> LauncherPid(w),
                          current_task |-> "Initializing worker",
                          articles_processed |-> 0, last_error |-> Null])]
  /\ apc' = "up"
  /\ stopReturned' = FALSE
  /\ UNCHANGED <<qvars, svars, status, sources, articleRows, errorRows, excPending,
                 toCrawl, sawStale, tornDown>>

\* index.ts 223-235: DELETE /api/crawl
ApiStop ==
  /\ apc = "up" /\ ucs[Api] = NoCall
  /\ wpc' = [w \in Workers |->
               IF status.worker_pid # NoPid /\ w \in Signalled(status.worker_pid)
                 THEN "killed" ELSE wpc[w]]
  /\ ucs' = [p \in Procs |->
               IF p = Api
                 THEN UcsSelect(StopArg)
               ELSE IF status.worker_pid # NoPid /\ p \in Signalled(status.worker_pid)
                 THEN NoCall ELSE ucs[p]]
  /\ UNCHANGED <<qvars, svars, stopReturned, status, sources, articleRows, errorRows, origin,
                 excPending, toCrawl, sawStale, tornDown, apc>>

\* index.ts 259-272: gracefulShutdown signals the worker and the API exits; the
\* server keeps nothing in memory, so the next start serves from the same row
ApiShutdown ==
  /\ apc = "up" /\ ucs[Api] = NoCall
  /\ status.worker_pid # NoPid
  /\ Signalled(status.worker_pid) # {}
  /\ AfterSignal(status.worker_pid)
  /\ UNCHANGED <<qvars, svars, stopReturned, status, sources, articleRows, errorRows, origin,
                 excPending, toCrawl, sawStale, tornDown, apc>>

WorkerStep(w) ==
  \/ WorkerCheck(w)
  \/ WorkerAcquire(w)
  \/ \E throws \in BOOLEAN : WorkerBootstrap(w, throws)
  \/ WorkerPhase1(w)
  \/ \E n \in 0..MaxCollected : WorkerCollected(w, n)
  \/ WorkerPhase2(w)
  \/ WorkerCrawlDispatch(w)
  \/ \E ok \in BOOLEAN : WorkerCrawlSettle(w, ok)
  \/ WorkerPhase25(w)
  \/ WorkerPhase3(w)
  \/ \E ok \in BOOLEAN : WorkerEval(w, ok)
  \/ WorkerThrow(w)
  \/ WorkerTeardown(w)
  \/ WorkerClosed(w)
  \/ WorkerHandler(w)
  \/ UcsWrite(w)

Next ==
  \/ \E w \in Workers : ManualStart(w)
  \/ \E w \in Workers : WorkerStep(w)
  \/ ApiStartCheck
  \/ \E w \in Workers : ApiSpawn(w)
  \/ ApiStop
  \/ ApiShutdown
  \/ UcsWrite(Api)

\* ------------------------------------------------------------------ store
\* A column value as SQLite and JavaScript see it: a number, NULL / null, the
\* number NaN, or a string that is not a number
Num(n) == [t |-> "num", v |-> n]
NullV == [t |-> "null", v |-> 0]
NaN == [t |-> "nan", v |-> 0]
JText == [t |-> "text", v |-> 0]
EmptyText == [t |-> "empty", v |-> 0]

\* the two links the feeds carry, and where the aggregator link redirects to
AggregatorUrl == QueuedArticle(1).url
DirectUrl == QueuedArticle(2).url
StoreUrls == {QueuedArticle(i).url : i \in 1..MaxUrls}
FinalUrl(url) == IF url = AggregatorUrl THEN QueuedArticle(1).resolvedUrl ELSE url

ScoreColumns == {"score_novelty", "score_importance", "score_reliability",
                 "score_context_value", "score_thought_provoking"}
Columns == {"resolved_url", "content", "image_url", "average_score"} \cup ScoreColumns

\* the value of a column no INSERT supplied
ColumnDefault(c) == IF c = "resolved_url" THEN NoUrl ELSE NullV

\* sqlite3_bind_double stores NaN as NULL; every other value is stored as given
Bind(c, v) == IF c # "resolved_url" /\ v = NaN THEN NullV ELSE v

Reverse(s) == [i \in 1..Len(s) |-> s[Len(s) + 1 - i]]

\* DAO.getArticleByUrl: the row, or NoRow for undefined
NoRow == [url |-> NoUrl]
RowIndex(rows, url) == {i \in 1..Len(rows) : rows[i].url = url}
getArticleByUrl(rows, url) ==
  IF RowIndex(rows, url) = {} THEN NoRow
  ELSE rows[CHOOSE i \in RowIndex(rows, url) : \A j \in RowIndex(rows, url) : i <= j]

\* DAO.saveArticle: with no column besides url the statement ends in
\* "DO UPDATE SET " and prepare() throws; otherwise INSERT, or on a url
\* conflict UPDATE of the supplied columns
saveArticleThrows(article) == (DOMAIN article) \ {"url"} = {}
saveArticle(rows, article) ==
  IF saveArticleThrows(article) THEN rows
  ELSE IF RowIndex(rows, article.url) = {}
    THEN Append(rows, [c \in Columns \cup {"url"} |->
                         IF c \in DOMAIN article THEN Bind(c, article[c])
                         ELSE ColumnDefault(c)])
    ELSE [i \in 1..Len(rows) |->
            IF rows[i].url # article.url THEN rows[i]
            ELSE [c \in Columns \cup {"url"} |->
                    IF c \in (DOMAIN article) \ {"url"} THEN Bind(c, article[c])
                    ELSE rows[i][c]]]

\* DAO.logError: INSERT OR REPLACE deletes the row of the same url and inserts
logErrorAppend(errors, url, phase, message) ==
  Append(errors, [url |-> url, phase |-> phase, message |-> message])
logError(errors, url, phase, message) ==
  LET Other(e) == e.url # url
  IN Append(SelectSeq(errors, Other), [url |-> url, phase |-> phase, message |-> message])

\* DAO.clearError
clearError(errors, url) ==
  LET Other(e) == e.url # url
  IN SelectSeq(errors, Other)

\* the reasons a blocked_domains row is written with: part_005 151 (the name
\* of the protection left out), article.ts 110 with the status of the GET
BotProtection == [kind |-> "bot protection", code |-> 0]
BrowserFetchFailed(code) == [kind |-> "browser fetch failed", code |-> code]

\* DAO.getBlockedDomains().map(d => d.domain)
BlockedHosts(blocked) == {d.domain : d \in blocked}

\* DAO.isBlockedDomain
isBlockedDomain(blocked, domain) == \E d \in blocked : d.domain = domain

\* DAO.addBlockedDomain: INSERT OR IGNORE on the UNIQUE column domain
addBlockedDomain(blocked, domain, reason) ==
  IF isBlockedDomain(blocked, domain) THEN blocked
  ELSE blocked \cup {[domain |-> domain, reason |-> reason]}

\* DAO.filterBlockedDomains
filterByUrlOnly(rows, blocked) ==
  IF blocked = {} THEN rows
  ELSE LET Kept(a) == Hostname(a.url) \notin BlockedHosts(blocked)
       IN SelectSeq(rows, Kept)
filterBlockedDomains(rows, blocked) ==
  IF blocked = {} THEN rows
  ELSE LET Kept(a) ==
             LET urlToCheck == IF a.resolved_url # NoUrl THEN a.resolved_url ELSE a.url
             IN urlToCheck.host = "" \/ urlToCheck.host \notin BlockedHosts(blocked)
       IN SelectSeq(rows, Kept)

\* LIMIT limit OFFSET offset
LimitOffset(rows, limit, offset) ==
  SubSeq(rows, offset + 1, Min(Len(rows), offset + limit))

\* DAO.getArticles, newest first (keyword search left out: no text columns)
getArticles(rows, blocked, limit, offset, minScore) ==
  LET Where(a) == minScore > 0 =>
                    (a.average_score.t = "num" /\ a.average_score.v >= minScore)
  IN filterBlockedDomains(
       LimitOffset(Reverse(SelectSeq(rows, Where)), limit, offset), blocked)

\* DAO.getUnprocessedArticles of the articles table
unprocessedArticles(rows, blocked, limit) ==
  LET Where(a) == a.average_score = NullV
                  \/ (a.content.t = "num" /\ a.content.v < MinEvalLen)
  IN filterBlockedDomains(
       LimitOffset(Reverse(SelectSeq(rows, Where)), limit, 0), blocked)

\* DAO.getArticlesWithoutImages, newest first
getArticlesWithoutImages(rows, blocked, limit) ==
  LET Where(a) == a.image_url = NullV \/ a.image_url = EmptyText
  IN filterBlockedDomains(LimitOffset(Reverse(SelectSeq(rows, Where)), limit, 0), blocked)

\* ------------------------------------------------- the article pipeline
Calls == 1..MaxCalls
IdleCall == [op |-> "none", url |-> NoUrl, pc |-> "idle", target |-> NoUrl,
             meta |-> NoUrl, forbidden |-> FALSE, status |-> 0, len |-> 0, avg |-> NullV,
             posted |-> 0]

\* the store after initDb on a fresh file, no call in flight
StoreEmpty ==
  /\ articles = <<>> /\ articleErrors = <<>> /\ blockedDomains = {}
  /\ calls = [c \in Calls |-> IdleCall]
  /\ evalList = {}
StoreIdle == StoreEmpty /\ webhookUrl = FALSE
\* configs.discord_webhook_url is set, or not
StoreStart == StoreEmpty /\ webhookUrl \in BOOLEAN

\* a new invocation takes the lowest free slot
Free(c) == calls[c] = IdleCall /\ \A d \in Calls : d < c => calls[d] # IdleCall
NewCall(op, url) == [IdleCall EXCEPT !.op = op, !.url = url]

\* article.ts isGoogleNewsUrl 37-39, rss.ts isGoogleNewsUrl 19-21
isGoogleNewsUrl(url) == url.host = AggregatorHost

\* currentPhase of fullyProcessAndSaveArticle 299, 315; the phase literal of
\* crawlAndSaveArticle 228 and evaluateExistingArticle 289
Phase(cl) ==
  IF cl.op = "crawl" \/ (cl.op = "full" /\ cl.pc # "llm") THEN "CRAWL" ELSE "EVAL"

\* the catch block of the caller: crawlAndSaveArticle 220-229,
\* evaluateExistingArticle 281-290, fullyProcessAndSaveArticle 356-371;
\* backfillImages (part_008 29-31) only prints
Throw(c, cl, rows, blocked, message) ==
  /\ articles' = rows
  /\ blockedDomains' = blocked
  /\ articleErrors' = IF cl.op = "backfill" THEN articleErrors
                      ELSE logError(articleErrors, cl.url, Phase(cl), message)
  /\ calls' = [calls EXCEPT ![c] = IdleCall]

\* processArticle 64-90: the blocklist check, then axios.get(targetUrl)
CheckAndGet(c, cl, rows) ==
  IF isBlockedDomain(blockedDomains, Hostname(cl.target))
    THEN Throw(c, cl, rows, blockedDomains, "blocked")
    ELSE /\ articles' = rows
         /\ calls' = [calls EXCEPT ![c] = [cl EXCEPT !.pc = "get"]]
         /\ UNCHANGED <<articleErrors, blockedDomains>>

\* processArticle 41-62: the cached resolved_url, or fetchFinalUrl for an
\* aggregator link, or the link itself
ProcessArticle(c, cl) ==
  LET existingArticle == getArticleByUrl(articles, cl.url)
  IN IF existingArticle # NoRow /\ existingArticle.resolved_url # NoUrl
       THEN CheckAndGet(c, [cl EXCEPT !.target = existingArticle.resolved_url], articles)
     ELSE IF isGoogleNewsUrl(cl.url)
       THEN /\ calls' = [calls EXCEPT ![c] = [cl EXCEPT !.pc = "resolving"]]
            /\ UNCHANGED <<articles, articleErrors, blockedDomains>>
     ELSE CheckAndGet(c, [cl EXCEPT !.target = cl.url], articles)

\* rss.ts collectFeedUrls 89-92: "Skip if already fully processed"
alreadyProcessed(rows, url) ==
  LET existing == getArticleByUrl(rows, url)
  IN /\ existing # NoRow /\ existing.content.t = "num"
     /\ existing.content.v > MinEvalLen /\ existing.average_score # NullV

\* rss.ts collectFeedUrls 86-95 for one feed item: skipped when fully
\* processed, else resolveUrl (38-43), which navigates for an aggregator link
Collect(c, url) ==
     /\ Free(c)
     /\ ~alreadyProcessed(articles, url)
     /\ calls' = [calls EXCEPT ![c] =
                    IF isGoogleNewsUrl(url)
                      THEN [NewCall("crawl", url) EXCEPT !.pc = "collecting"]
                      ELSE [NewCall("crawl", url) EXCEPT !.pc = "queued", !.meta = url]]
     /\ UNCHANGED <<articles, articleErrors, blockedDomains, webhookUrl, evalList>>

\* fetchFinalUrl of resolveUrl settled (part_005 36-69: the final address, or
\* the link itself when the navigation failed); the item is queued
Collected(c, ok) ==
  LET cl == calls[c]
  IN /\ cl.pc = "collecting"
     /\ calls' = [calls EXCEPT ![c] =
                    [cl EXCEPT !.pc = "queued",
                               !.meta = IF ok THEN FinalUrl(cl.url) ELSE cl.url]]
     /\ UNCHANGED <<articles, articleErrors, blockedDomains, webhookUrl, evalList>>

\* worker.ts 81-89: the processor calls crawlAndSaveArticle(url, metadata)
CrawlStart(c) ==
  /\ calls[c].pc = "queued"
  /\ ProcessArticle(c, calls[c])
  /\ UNCHANGED <<webhookUrl, evalList>>

\* index.ts 37, 240, 247: POST /api/ingest and the retry endpoints call
\* fullyProcessAndSaveArticle(url)
FullStart(c, url) ==
  /\ Free(c)
  /\ ProcessArticle(c, NewCall("full", url))
  /\ UNCHANGED <<webhookUrl, evalList>>

\* processArticle 54-58: fetchFinalUrl returns the final address, or the link
\* itself when the navigation failed; either is saved as resolved_url
Resolved(c, ok) ==
  LET cl == calls[c]
      targetUrl == IF ok THEN FinalUrl(cl.url) ELSE cl.url
  IN /\ cl.pc = "resolving"
     /\ CheckAndGet(c, [cl EXCEPT !.target = targetUrl],
                    saveArticle(articles, [url |-> cl.url, resolved_url |-> targetUrl]))
     /\ UNCHANGED <<webhookUrl, evalList>>

\* what Readability, the PDF parser or the YouTube branch extract
ExtractedLengths == {TooShortLen, ShortLen, LongLen, LongerLen}

\* evaluateArticle is called with content of this length
Evaluate(c, cl, rows, len) ==
  /\ articles' = rows
  /\ calls' = [calls EXCEPT ![c] = [cl EXCEPT !.pc = "llm", !.len = len]]
  /\ UNCHANGED <<articleErrors, blockedDomains>>

\* processArticle 170-187 returned (with an og:image, when the caller stores
\* the page); crawlAndSaveArticle 206-219 saves and returns,
\* fullyProcessAndSaveArticle 306-326 saves and evaluates, backfillImages
\* goes on to its own save
Processed(c, cl, len) ==
  IF len < MinReadable
    THEN Throw(c, cl, articles, blockedDomains, "failed")
  ELSE IF cl.op = "backfill"
    THEN /\ calls' = [calls EXCEPT ![c] = [cl EXCEPT !.pc = "processed"]]
         /\ UNCHANGED <<articles, articleErrors, blockedDomains>>
  ELSE IF cl.op = "crawl"
    THEN /\ articles' = saveArticle(articles,
               [url |-> cl.url,
                resolved_url |-> IF cl.meta # NoUrl THEN cl.meta ELSE cl.target,
                content |-> Num(len), image_url |-> JText])
         /\ calls' = [calls EXCEPT ![c] = IdleCall]
         /\ UNCHANGED <<articleErrors, blockedDomains>>
  ELSE Evaluate(c, cl,
                saveArticle(articles, [url |-> cl.url, resolved_url |-> cl.target,
                                       content |-> Num(len), image_url |-> JText]), len)

\* processArticle 81-113: the answer to axios.get (0: no answer)
GetStatuses == {200, 404, 403, 401, 400, 0}
GetSettle(c, httpStatus, len) ==
  LET cl == calls[c]
  IN /\ cl.pc = "get"
     /\ httpStatus # 200 => len = LongLen
     /\ IF httpStatus \in {404, 0}
          THEN Throw(c, cl, articles, blockedDomains, "failed")
        ELSE IF httpStatus >= 400
          THEN /\ calls' = [calls EXCEPT ![c] =
                              [cl EXCEPT !.pc = "browser", !.status = httpStatus,
                                         !.forbidden = (httpStatus \in {401, 403})]]
               /\ UNCHANGED <<articles, articleErrors, blockedDomains>>
        ELSE Processed(c, cl, len)
     /\ UNCHANGED <<webhookUrl, evalList>>

\* article.ts 105-112: the catch of the browser fallback, entered by any
\* failure of fetchWithBrowser, the bot-protection error included
BrowserFailedUnrecorded(cl, blocked) == blocked
BrowserFailed(cl, blocked) ==
  IF cl.forbidden
    THEN addBlockedDomain(blocked, Hostname(cl.target), BrowserFetchFailed(cl.status))
    ELSE blocked

\* fetchWithBrowser (part_005 71-175) settled at the address the page ended
\* on (page.url(), 131): the page, a bot-protection page (the host of that
\* address is blocked, 139-154), or a failure
BrowserOutcomes == {"html", "bot", "fail"}
BrowserSettle(c, outcome, redirected, len) ==
  LET cl == calls[c]
      finalUrl == IF redirected THEN FinalUrl(cl.target) ELSE cl.target
  IN /\ cl.pc = "browser"
     /\ outcome # "html" => len = LongLen
     /\ outcome = "fail" => ~redirected
     /\ CASE outcome = "html" ->
               Processed(c, [cl EXCEPT !.forbidden = FALSE, !.status = 0,
                                       !.target = finalUrl], len)
          [] outcome = "bot" ->
               Throw(c, cl, articles,
                     BrowserFailed(cl, addBlockedDomain(blockedDomains, Hostname(finalUrl),
                                                        BotProtection)),
                     "blocked")
          [] OTHER ->
               Throw(c, cl, articles, BrowserFailed(cl, blockedDomains), "failed")
     /\ UNCHANGED <<webhookUrl, evalList>>

\* worker.ts 111: the Phase 3 work list
Phase3Read ==
  /\ \A c \in Calls : calls[c].op # "eval"
  /\ evalList' = {a.url : a \in Range(unprocessedArticles(articles, blockedDomains,
                                                         Phase3Limit))}
  /\ evalList' # evalList
  /\ UNCHANGED <<articles, articleErrors, blockedDomains, webhookUrl, calls>>

\* evaluateExistingArticle 237-258 for an entry of the work list: it returns
\* false without content of 200 characters, true when a score is stored, and
\* else calls the Evaluator
EvalStart(c, url) ==
  LET article == getArticleByUrl(articles, url)
      cl == NewCall("eval", url)
  IN /\ Free(c)
     /\ url \in evalList
     /\ evalList' = evalList \ {url}
     /\ IF article = NoRow \/ article.content = NullV \/ article.content.v < MinEvalLen
          THEN /\ calls' = [calls EXCEPT ![c] = [cl EXCEPT !.pc = "false"]]
               /\ UNCHANGED <<articles, articleErrors, blockedDomains>>
        ELSE IF article.average_score # NullV
          THEN /\ calls' = [calls EXCEPT ![c] = [cl EXCEPT !.pc = "true"]]
               /\ UNCHANGED <<articles, articleErrors, blockedDomains>>
        ELSE Evaluate(c, cl, articles, article.content.v)
     /\ UNCHANGED webhookUrl

\* worker.ts 130-133: the batch item continues with the returned value
EvalReturn(c) ==
  /\ calls[c].pc \in {"true", "false"}
  /\ calls' = [calls EXCEPT ![c] = IdleCall]
  /\ UNCHANGED <<articles, articleErrors, blockedDomains, webhookUrl, evalList>>

\* the scores object of the JSON the model answers with: novelty and
\* importance vary, the other three are numbers
OtherScore == 3
LlmResponses ==
  [novelty : {Num(5), JText}, importance : {Num(5), Num(1), NullV, JText}]
Scores(r) ==
  [score_novelty |-> r.novelty, score_importance |-> r.importance,
   score_reliability |-> Num(OtherScore), score_context_value |-> Num(OtherScore),
   score_thought_provoking |-> Num(OtherScore)]

\* evaluator.ts 56-63: the response is rejected unless scores.novelty is a number
ValidResponse(r) == r.novelty.t = "num"

\* evaluator.ts 65-66: the sum of the five over 5, in tenths; null counts as
\* 0 and a string makes the sum a string, whose quotient is NaN
averageScore(r) ==
  LET s == Scores(r)
  IN IF \E k \in ScoreColumns : s[k].t = "text" THEN NaN
     ELSE Num(2 * (s.score_novelty.v + s.score_importance.v + s.score_reliability.v
                   + s.score_context_value.v + s.score_thought_provoking.v))

\* discord.ts 7-9: no webhook, or averageScore < score_threshold, returns
\* before the post (NaN < x is false)
Notifies(avg) ==
  /\ webhookUrl
  /\ ~(avg.t = "num" /\ avg.v < ScoreThreshold10)

\* the upsert of the evaluation: evaluateExistingArticle 261-272 without,
\* fullyProcessAndSaveArticle 332-344 with resolved_url
EvaluationRecord(cl, r) ==
  [c \in {"url", "average_score"} \cup ScoreColumns
       \cup (IF cl.op = "full" THEN {"resolved_url"} ELSE {}) |->
     CASE c = "url" -> cl.url
       [] c = "average_score" -> averageScore(r)
       [] c = "resolved_url" -> cl.target
       [] OTHER -> Scores(r)[c]]

\* evaluateArticle settled: it threw (request failed, response rejected), or
\* returned; then the scores are saved and sendDiscordNotification is called,
\* which posts or returns at once
LlmSettle(c, failed, r) ==
  LET cl == calls[c]
      avg == averageScore(r)
  IN /\ cl.pc = "llm"
     /\ failed => r = [novelty |-> Num(5), importance |-> Num(5)]
     /\ IF failed \/ ~ValidResponse(r)
          THEN Throw(c, cl, articles, blockedDomains, "llm")
          ELSE /\ articles' = saveArticle(articles, EvaluationRecord(cl, r))
               /\ calls' = [calls EXCEPT ![c] =
                              [cl EXCEPT !.pc = "notify", !.avg = avg, !.len = 0,
                                         !.target = NoUrl,
                                         !.posted = IF Notifies(avg) THEN cl.posted + 1
                                                    ELSE cl.posted]]
               /\ UNCHANGED <<articleErrors, blockedDomains>>
     /\ UNCHANGED <<webhookUrl, evalList>>

\* sendDiscordNotification settled (a failed post is swallowed, discord.ts
\* 32-38); evaluateExistingArticle 279-280, fullyProcessAndSaveArticle 352-354
NotifySettle(c) ==
  LET cl == calls[c]
  IN /\ cl.pc = "notify"
     /\ articleErrors' = clearError(articleErrors, cl.url)
     /\ calls' = [calls EXCEPT ![c] = IdleCall]
     /\ UNCHANGED <<articles, blockedDomains, webhookUrl, evalList>>

\* a step of the pipeline with the answers of the network and of the model
\* drawn from the given sets
PipelineStep(statuses, redirects, responses) ==
  \/ \E c \in Calls, url \in StoreUrls : Collect(c, url) /\ UNCHANGED <<qvars, lvars, cvars>>
  \/ \E c \in Calls, ok \in BOOLEAN : Collected(c, ok) /\ UNCHANGED <<qvars, lvars, cvars>>
  \/ \E c \in Calls : CrawlStart(c) /\ UNCHANGED <<qvars, lvars, cvars>>
  \/ \E c \in Calls, ok \in BOOLEAN : Resolved(c, ok) /\ UNCHANGED <<qvars, lvars, cvars>>
  \/ \E c \in Calls, s \in statuses, len \in ExtractedLengths :
       GetSettle(c, s, len) /\ UNCHANGED <<qvars, lvars, cvars>>
  \/ \E c \in Calls, o \in BrowserOutcomes, redirected \in redirects,
          len \in ExtractedLengths :
       BrowserSettle(c, o, redirected, len) /\ UNCHANGED <<qvars, lvars, cvars>>
  \/ Phase3Read /\ UNCHANGED <<qvars, lvars, cvars>>
  \/ \E c \in Calls, url \in StoreUrls : EvalStart(c, url) /\ UNCHANGED <<qvars, lvars, cvars>>
  \/ \E c \in Calls : EvalReturn(c) /\ UNCHANGED <<qvars, lvars, cvars>>
  \/ \E c \in Calls, failed \in BOOLEAN, r \in responses :
       LlmSettle(c, failed, r) /\ UNCHANGED <<qvars, lvars, cvars>>
  \/ \E c \in Calls : NotifySettle(c) /\ UNCHANGED <<qvars, lvars, cvars>>

\* the steps of the worker, and the ingest and retry routes of the API
StoreStep(statuses, redirects, responses) ==
  \/ PipelineStep(statuses, redirects, responses)
  \/ \E c \in Calls, url \in StoreUrls : FullStart(c, url) /\ UNCHANGED <<qvars, lvars, cvars>>

\* SpecPipeline: the pipeline calls of worker cycles only, the page fetched, not
\* found or forbidden, the model answering with numbers or with text for a score
PipelineResponses == [novelty : {Num(5)}, importance : {Num(5), Num(1), JText}]
PipelineNext == PipelineStep({200, 404, 403}, {FALSE}, PipelineResponses)

\* SpecStore: every answer of the model, the GET answered 200, 404, 403, 400
\* or not at all, the browser ending on the address it was sent to
StoreStatuses == GetStatuses \ {401}
StoreNext == StoreStep(StoreStatuses, {FALSE}, LlmResponses)

\* SpecFetch: every answer to the GET, the browser following a redirect or
\* not, one answer of the model
FetchResponses == {[novelty |-> Num(5), importance |-> Num(5)]}
FetchNext == StoreStep(GetStatuses, BOOLEAN, FetchResponses)

\* ------------------------------------------------- the DAO called directly
DaoUrls == {AggregatorUrl, DirectUrl}
DaoHosts == {AggregatorHost, HostA, HostB}

\* Partial<Article> arguments: url with any set of the columns below
InputValues(url, c) ==
  CASE c = "resolved_url" -> {FinalUrl(url), NoUrl}
    [] c = "content" -> {Num(ShortLen), Num(LongLen)}
    [] OTHER -> {Num(ScoreThreshold10), NullV}
InputColumns == {"resolved_url", "content", "average_score"}
SaveInputs ==
  UNION {UNION {{[c \in cols \cup {"url"} |-> IF c = "url" THEN url ELSE f[c]] :
                   f \in {g \in [cols -> {FinalUrl(url), NoUrl, Num(ShortLen), Num(LongLen),
                                          Num(ScoreThreshold10), NullV}] :
                            \A c \in cols : g[c] \in InputValues(url, c)}} :
                 cols \in SUBSET InputColumns} : url \in DaoUrls}

DaoSaveArticle(article) ==
  /\ articles' = saveArticle(articles, article)
  /\ UNCHANGED <<articleErrors, blockedDomains, webhookUrl, calls, evalList>>

DaoLogError(url, phase, message) ==
  /\ articleErrors' = logError(articleErrors, url, phase, message)
  /\ UNCHANGED <<articles, blockedDomains, webhookUrl, calls, evalList>>

DaoClearError(url) ==
  /\ articleErrors' = clearError(articleErrors, url)
  /\ UNCHANGED <<articles, blockedDomains, webhookUrl, calls, evalList>>

\* DAO.addBlockedDomain
DaoAddBlockedDomain(domain) ==
  /\ blockedDomains' = addBlockedDomain(blockedDomains, domain, BotProtection)
  /\ UNCHANGED <<articles, articleErrors, webhookUrl, calls, evalList>>

\* DAO.removeBlockedDomain
DaoRemoveBlockedDomain(domain) ==
  /\ blockedDomains' = {d \in blockedDomains : d.domain # domain}
  /\ UNCHANGED <<articles, articleErrors, webhookUrl, calls, evalList>>

DaoNext ==
  \/ \E article \in SaveInputs : DaoSaveArticle(article) /\ UNCHANGED <<qvars, lvars, cvars>>
  \/ \E url \in DaoUrls, phase \in {"CRAWL", "EVAL"}, message \in {"failed"} :
       DaoLogError(url, phase, message) /\ UNCHANGED <<qvars, lvars, cvars>>
  \/ \E url \in DaoUrls : DaoClearError(url) /\ UNCHANGED <<qvars, lvars, cvars>>
  \/ \E domain \in DaoHosts : DaoAddBlockedDomain(domain) /\ UNCHANGED <<qvars, lvars, cvars>>
  \/ \E domain \in DaoHosts : DaoRemoveBlockedDomain(domain) /\ UNCHANGED <<qvars, lvars, cvars>>

\* ------------------------------------------------ collectAllArticleUrls
\* The items a feed can list: two aggregator links that resolve to the same
\* address, and a direct link
FeedItems ==
  {[url |-> Url(AggregatorHost, 1), resolvedUrl |-> Url(HostA, 1)],
   [url |-> Url(AggregatorHost, 2), resolvedUrl |-> Url(HostA, 1)],
   [url |-> Url(HostB, 1), resolvedUrl |-> Url(HostB, 1)]}

\* what collectFeedUrls resolves to for one source: the emitted items, or the
\* empty list when the fetch or the parse threw (rss.ts 68-82, 118-129)
FetchFailed == [ok |-> FALSE, items |-> <<>>]
FeedLists == UNION {[1..n -> FeedItems] : n \in 0..MaxFeedItems}
FeedOutcomes == {FetchFailed} \cup {[ok |-> TRUE, items |-> l] : l \in FeedLists}
collectFeedUrls(outcome) == IF outcome.ok THEN outcome.items ELSE <<>>

\* rss.ts 162: const key = a.resolvedUrl || a.url
dedupKeyUrlOnly(a) == a.url
dedupKey(a) == IF a.resolvedUrl # NoUrl THEN a.resolvedUrl ELSE a.url

\* rss.ts 160-166: filter with the `seen` set, first occurrence kept
RECURSIVE deduplicate(_, _)
deduplicate(list, seen) ==
  IF list = <<>> THEN <<>>
  ELSE IF dedupKey(Head(list)) \in seen THEN deduplicate(Tail(list), seen)
  ELSE <<Head(list)>> \o deduplicate(Tail(list), seen \cup {dedupKey(Head(list))})

\* no collectAllArticleUrls call
BackfillIdle == [pc |-> "idle", list |-> <<>>]

\* no direct call made, no feed being collected, no browser launched
NothingReturned == [op |-> "none", id |-> 0]
FeedIdle == [pc |-> "idle", i |-> 0, promises |-> <<>>]
NoBrowser == 0
XIdle ==
  /\ returned = NothingReturned
  /\ feed = FeedIdle
  /\ browserInstance = NoBrowser /\ browsers = <<>> /\ bcalls = <<>>

CollectIdle ==
  /\ feedResults = <<>> /\ concurrency = 0 /\ sourceIndex = 0
  /\ allArticles = <<>> /\ unique = <<>>
  /\ backfill = BackfillIdle
  /\ XIdle

\* rss.ts 137-138: the call has read the sources
CollectStart ==
  /\ feedResults \in UNION {[1..n -> FeedOutcomes] : n \in 0..MaxSources}
  /\ concurrency \in 1..MaxSources
  /\ sourceIndex = 0
  /\ allArticles = <<>> /\ unique = <<>>
  /\ backfill = BackfillIdle
  /\ XIdle

\* results.value of the batch, pushed in the order of the batch
RECURSIVE BatchValues(_, _)
BatchValues(from, to) ==
  IF from > to THEN <<>>
  ELSE collectFeedUrls(feedResults[from]) \o BatchValues(from + 1, to)

\* rss.ts 143-157: one iteration of the batch loop, after its allSettled
CollectBatch ==
  /\ sourceIndex >= 0 /\ sourceIndex < Len(feedResults)
  /\ allArticles' = allArticles
        \o BatchValues(sourceIndex + 1, Min(sourceIndex + concurrency, Len(feedResults)))
  /\ sourceIndex' = sourceIndex + concurrency
  /\ UNCHANGED <<feedResults, concurrency, unique, backfill, xvars>>

\* rss.ts 159-169: deduplicate and return
CollectReturn ==
  /\ sourceIndex >= Len(feedResults)
  /\ unique' = deduplicate(allArticles, {})
  /\ sourceIndex' = 0 - 1
  /\ UNCHANGED <<feedResults, concurrency, allArticles, backfill, xvars>>

CollectNext ==
  \/ CollectBatch /\ UNCHANGED <<qvars, lvars, articles, articleErrors, blockedDomains,
                                  webhookUrl, calls, evalList>>
  \/ CollectReturn /\ UNCHANGED <<qvars, lvars, articles, articleErrors, blockedDomains,
                                   webhookUrl, calls, evalList>>

\* ------------------------------------------------------- backfillImages
collectVars == <<feedResults, concurrency, sourceIndex, allArticles, unique>>
storeRest == <<webhookUrl, evalList>>

\* part_008 7: the articles without an image are read
BackfillRead ==
  /\ backfill.pc = "idle"
  /\ backfill' = [pc |-> "loop",
                  list |-> [i \in 1..Len(getArticlesWithoutImages(articles, blockedDomains,
                                                                  BackfillLimit)) |->
                              getArticlesWithoutImages(articles, blockedDomains,
                                                       BackfillLimit)[i].url]]
  /\ UNCHANGED <<articles, articleErrors, blockedDomains, calls, storeRest>>

\* part_008 11-14: the next article of the list is passed to processArticle
BackfillItem(c) ==
  /\ backfill.pc = "loop" /\ backfill.list # <<>>
  /\ \A d \in Calls : calls[d] = IdleCall
  /\ Free(c)
  /\ backfill' = [backfill EXCEPT !.list = Tail(backfill.list)]
  /\ ProcessArticle(c, NewCall("backfill", Head(backfill.list)))
  /\ UNCHANGED storeRest

\* part_008 16-25: processArticle returned, with an og:image or without;
\* image_url is saved
BackfillSave(c, found) ==
  LET cl == calls[c]
  IN /\ cl.pc = "processed"
     /\ articles' = saveArticle(articles,
                                [url |-> cl.url,
                                 image_url |-> IF found THEN JText ELSE EmptyText])
     /\ calls' = [calls EXCEPT ![c] = IdleCall]
     /\ UNCHANGED <<backfill, articleErrors, blockedDomains, storeRest>>

\* part_008 11, 34: the list is exhausted
BackfillReturn ==
  /\ backfill.pc = "loop" /\ backfill.list = <<>>
  /\ \A d \in Calls : calls[d] = IdleCall
  /\ backfill' = [backfill EXCEPT !.pc = "done"]
  /\ UNCHANGED <<articles, articleErrors, blockedDomains, calls, storeRest>>

BackfillNext ==
  \/ BackfillRead /\ UNCHANGED <<qvars, lvars, collectVars, xvars>>
  \/ \E c \in Calls : BackfillItem(c) /\ UNCHANGED <<qvars, lvars, collectVars, xvars>>
  \/ \E c \in Calls, found \in BOOLEAN :
       BackfillSave(c, found) /\ UNCHANGED <<qvars, lvars, collectVars, xvars>>
  \/ BackfillReturn /\ UNCHANGED <<qvars, lvars, collectVars, xvars>>
  \/ \E c \in Calls, ok \in BOOLEAN : Resolved(c, ok) /\ UNCHANGED <<qvars, lvars, cvars>>
  \/ \E c \in Calls, s \in GetStatuses, len \in ExtractedLengths :
       GetSettle(c, s, len) /\ UNCHANGED <<qvars, lvars, cvars>>
  \/ \E c \in Calls, o \in BrowserOutcomes, redirected \in BOOLEAN,
          len \in ExtractedLengths :
       BrowserSettle(c, o, redirected, len) /\ UNCHANGED <<qvars, lvars, cvars>>

\* the tables when the worker of the cycle has written its lease (worker.ts 26-31)
LeaseHeld ==
  /\ status = [SeedStatus EXCEPT !.is_crawling = 1, !.worker_pid = WorkerPid(1),
                                  !.last_run = Now, !.current_task = "Initializing"]
  /\ sources = {}
  /\ articleRows = {} /\ errorRows = {}
  /\ wpc = [w \in Workers |-> IF w = 1 THEN "phase1" ELSE "idle"]
  /\ origin = [w \in Workers |-> IF w = 1 THEN "manual" ELSE "none"]
  /\ excPending = [w \in Workers |-> FALSE]
  /\ toCrawl = [w \in Workers |-> 0]
  /\ sawStale = [w \in Workers |-> FALSE]
  /\ tornDown = [w \in Workers |-> FALSE]
  /\ stopReturned = FALSE
  /\ apc = "up"
  /\ ucs = [p \in Procs |-> NoCall]
QueueInit == QueueStart /\ LeaseHeld /\ StoreIdle /\ CollectIdle
Init == LeaseStart /\ QueueStart /\ StoreIdle /\ CollectIdle /\ dqConfig.maxConcurrentPerDomain = 1
        /\ dqConfig.maxTotalConcurrent = 1 /\ dqConfig.domainDelayMs = 0
        /\ feedsPending = 1 /\ feedConcurrency = 1

SpecQueue == QueueInit /\ [][QueueNext]_vars

\* processDomainQueue runs on: each loop iteration and each timer callback is
\* executed, the clock advances, and every processor in flight settles
DriverStep ==
  DriverDispatch \/ DriverRace \/ DriverPause \/ DriverTimer \/ DriverReturn

FairSpecQueue ==
  /\ QueueInit /\ [][QueueNext]_vars
  /\ WF_vars(DriverStep)
  /\ WF_vars(Tick)
  /\ \A id \in ArticleIds :
       SF_vars(\E outcome \in CrawlOutcomes : TaskSettle(id, outcome))
StoreInit == StoreStart /\ CollectIdle /\ QueueStart /\ LeaseStart /\ sources = {}
                        /\ dqConfig.maxConcurrentPerDomain = 1
                        /\ dqConfig.maxTotalConcurrent = 1 /\ dqConfig.domainDelayMs = 0
                        /\ feedsPending = 1 /\ feedConcurrency = 1
SpecStore == StoreInit /\ [][StoreNext]_vars
SpecPipeline == StoreInit /\ [][PipelineNext]_vars
FetchInit == StoreInit /\ webhookUrl = FALSE
SpecFetch == FetchInit /\ [][FetchNext]_vars
DaoInit == StoreIdle /\ CollectIdle /\ QueueStart /\ LeaseStart /\ sources = {}
                     /\ dqConfig.maxConcurrentPerDomain = 1
                     /\ dqConfig.maxTotalConcurrent = 1 /\ dqConfig.domainDelayMs = 0
                     /\ feedsPending = 1 /\ feedConcurrency = 1
SpecDao == DaoInit /\ [][DaoNext]_vars
CollectInit == CollectStart /\ StoreIdle /\ QueueStart /\ LeaseStart /\ sources = {}
                            /\ dqConfig.maxConcurrentPerDomain = 1
                            /\ dqConfig.maxTotalConcurrent = 1 /\ dqConfig.domainDelayMs = 0
                            /\ feedsPending = 1 /\ feedConcurrency = 1
SpecCollect == CollectInit /\ [][CollectNext]_vars

\* the articles table initDb (db/index.ts 96-115) leaves on an existing file:
\* rows of this pipeline, and rows written before the column resolved_url
\* was added, which have none
StoredRows(url) ==
  {[c \in Columns \cup {"url"} |->
      CASE c = "url" -> url
        [] c = "resolved_url" -> r
        [] c = "content" -> t
        [] c = "image_url" -> m
        [] OTHER -> NullV] :
     r \in {NoUrl, FinalUrl(url)}, t \in {NullV, Num(LongLen)},
     m \in {NullV, EmptyText, JText}}
StoredTables ==
  {<<>>} \cup {<<a>> : a \in StoredRows(AggregatorUrl) \cup StoredRows(DirectUrl)}
         \cup {<<a, b>> : a \in StoredRows(AggregatorUrl), b \in StoredRows(DirectUrl)}
BackfillInit ==
  /\ articles \in StoredTables
  /\ articleErrors = <<>> /\ blockedDomains = {} /\ webhookUrl = FALSE
  /\ calls = [c \in Calls |-> IdleCall] /\ evalList = {}
  /\ CollectIdle /\ QueueStart /\ LeaseStart /\ sources = {}
  /\ dqConfig.maxConcurrentPerDomain = 1
  /\ dqConfig.maxTotalConcurrent = 1 /\ dqConfig.domainDelayMs = 0
  /\ feedsPending = 1 /\ feedConcurrency = 1
SpecBackfill == BackfillInit /\ [][BackfillNext]_vars
Spec == Init /\ [][Next]_vars

\* the row a worker leaves behind when gracefulShutdown signals it: spawned by
\* POST /api/crawl and stopped before, or after, its own lease write
StaleStart ==
  /\ status \in {[SeedStatus EXCEPT !.is_crawling = 1,
                                     !.worker_pid = LauncherPid(1),
                                     !.current_task = "Initializing worker"],
                  [SeedStatus EXCEPT !.is_crawling = 1,
                                     !.worker_pid = WorkerPid(1),
                                     !.last_run = Now,
                                     !.current_task = "Initializing"]}
  /\ sources \in {{}, {GoogleFeed}}
  /\ articleRows = {} /\ errorRows = {}
  /\ wpc = [w \in Workers |-> IF w = 1 THEN "killed" ELSE "idle"]
  /\ origin = [w \in Workers |-> IF w = 1 THEN "api" ELSE "none"]
  /\ excPending = [w \in Workers |-> FALSE]
  /\ toCrawl = [w \in Workers |-> 0]
  /\ sawStale = [w \in Workers |-> FALSE]
  /\ tornDown = [w \in Workers |-> FALSE]
  /\ stopReturned = FALSE
  /\ apc = "up"
  /\ ucs = [p \in Procs |-> NoCall]

FairInit ==
  /\ StaleStart /\ QueueStart /\ StoreIdle /\ CollectIdle /\ dqConfig.maxConcurrentPerDomain = 1
  /\ dqConfig.maxTotalConcurrent = 1 /\ dqConfig.domainDelayMs = 0
  /\ feedsPending = 1 /\ feedConcurrency = 1

\* a live process keeps executing: every started worker, and the API inside a
\* request handler, take their next step
FairSpec ==
  /\ FairInit /\ [][Next]_vars
  /\ \A w \in Workers : WF_vars(WorkerStep(w))
  /\ WF_vars(UcsWrite(Api))

\* ------------------------------------------------------- claims, SpecQueue
RECURSIVE SumCounts(_)
SumCounts(m) ==
  IF DOMAIN m = {} THEN 0
  ELSE LET k == CHOOSE x \in DOMAIN m : TRUE
       IN m[k] + SumCounts([x \in (DOMAIN m) \ {k} |-> m[x]])

InFlightOn(h) == {i \in activePromises : extractDomain(QueuedArticle(i)) = h}

\* C1: while processDomainQueue drives the manager, the per-host counters add up
\* to totalActive, totalActive never exceeds maxTotalConcurrent and no host
\* exceeds maxConcurrentPerDomain, for every domainDelayMs including 0; the
\* counters are the numbers of processors really in flight.
C1_ConcurrencyCaps ==
  /\ SumCounts(activeCounts) = totalActive
  /\ totalActive <= dqConfig.maxTotalConcurrent
  /\ \A h \in DOMAIN activeCounts :
       /\ activeCounts[h] <= dqConfig.maxConcurrentPerDomain
       /\ cphase = "phase2" => Cardinality(InFlightOn(h)) = activeCounts[h]

\* C1 witness: with domainDelayMs = 0 a host is held back by its cap alone
C1_Witness ==
  /\ cphase = "phase2" /\ dqConfig.domainDelayMs = 0
  /\ totalActive < dqConfig.maxTotalConcurrent
  /\ \E h \in DOMAIN queues :
       /\ Len(queues[h]) > 0
       /\ activeCounts[h] = dqConfig.maxConcurrentPerDomain

\* C2: two consecutive dispatches to one host are at least domainDelayMs apart,
\* whatever happens on other hosts in between.
C2_DomainDelay ==
  \A h \in DOMAIN dispatchLog :
    \A k \in 2..Len(dispatchLog[h]) :
      dispatchLog[h][k] - dispatchLog[h][k - 1] >= dqConfig.domainDelayMs

\* C2 witness: a host was dispatched to twice under a positive delay, with a
\* dispatch to another host in between
C2_Witness ==
  /\ dqConfig.domainDelayMs > 0
  /\ \E h, g \in DOMAIN dispatchLog :
       /\ h # g
       /\ Len(dispatchLog[h]) >= 2
       /\ \E j \in 1..Len(dispatchLog[g]) :
            /\ dispatchLog[h][1] <= dispatchLog[g][j]
            /\ dispatchLog[g][j] <= dispatchLog[h][2]

PhaseRank(p) == CASE p = "1" -> 1 [] p = "2" -> 2 [] p = "2.5" -> 3 [] p = "3" -> 4

\* C10: no Evaluator call is in flight while a Phase 2 crawl task is, the phases
\* start in the order 1, 2, 2.5, 3, and the work of one phase is never in
\* flight together with the work of another.
C10_PhaseOrder ==
  /\ evalActive # {} => activePromises = {} /\ cphase = "phase3"
  /\ \A j, k \in 1..Len(phaseLog) :
       j < k => PhaseRank(phaseLog[j]) < PhaseRank(phaseLog[k])
  /\ feedsActive > 0 => cphase = "phase1" /\ activePromises = {} /\ bfLeft = 0
  /\ bfLeft > 0 => cphase = "phase25" /\ activePromises = {} /\ evalActive = {}
  /\ cphase \in {"phase25", "phase3"} => activePromises = {}

\* C10 witness: all four phases started and an Evaluator call is in flight
C10_Witness ==
  /\ phaseLog = <<"1", "2", "2.5", "3">>
  /\ evalActive # {}

\* ------------------------------------------------------ claims, lease
InPhases(w) == wpc[w] \in InTry

\* C3: no two workers are, at the same time, past the lease acquisition and
\* inside the collection / crawl / evaluation phases.
C3_SingleWorker ==
  \A v \in Workers : \A w \in Workers :
    v # w => ~(InPhases(v) /\ InPhases(w))

Ended(w) == wpc[w] \in {"done", "failed"} /\ ucs[w] = NoCall

\* C4: at the step that ends the cycle of a worker that had acquired the lease
\* (main resolved, or its rejection was handled), the row has is_crawling = 0
\* and worker_pid = NULL.
C4_LeaseReleasedAtEnd ==
  [][\A w \in Workers :
       (~Ended(w) /\ Ended(w)')
         => (status'.is_crawling = 0 /\ status'.worker_pid = NoPid)]_vars

\* C5: in every reachable state worker_pid is non-null exactly when
\* is_crawling = 1.
C5_PidIffCrawling ==
  (status.worker_pid # NoPid) <=> (status.is_crawling = 1)

\* C6: the UPDATE of an updateCrawlerStatus call changes no column the caller
\* did not supply, whatever the other processes wrote since its SELECT.
C6_PartialUpdateFrame ==
  [][\A p \in Procs :
       (ucs[p] # NoCall /\ ucs'[p] = NoCall)
         => \A f \in Fields \ DOMAIN ucs[p].arg : status'[f] = status[f]]_vars

StaleLease ==
  /\ status.is_crawling = 1 /\ status.worker_pid # NoPid
  /\ ~PidAlive(status.worker_pid)

Reclaimed(w) ==
  /\ wpc[w] = "bootstrap" /\ ucs[w] = NoCall
  /\ status.is_crawling = 1 /\ status.worker_pid = WorkerPid(w)

Finished(w) ==
  /\ wpc[w] \in {"closing", "failed"} /\ ucs[w] = NoCall
  /\ status.is_crawling = 0

\* C7: a worker whose check finds is_crawling = 1 with the pid of a dead process
\* goes on to acquire; unless it is signalled, it then writes is_crawling = 1
\* with its own pid, and after that reaches the end of its cycle with a write
\* that leaves is_crawling = 0.
C7_StaleLeaseReclaimed ==
  /\ [][\A w \in Workers :
          (wpc[w] = "check" /\ StaleLease /\ wpc'[w] # "check")
            => wpc'[w] = "acquire"]_vars
  /\ \A w \in Workers :
       (sawStale[w] /\ wpc[w] = "acquire")
         ~> (Reclaimed(w) \/ wpc[w] = "killed")
  /\ \A w \in Workers :
       (sawStale[w] /\ Reclaimed(w)) ~> (Finished(w) \/ wpc[w] = "killed")

C7_Witness ==
  \E w \in Workers :
    /\ sawStale[w] /\ tornDown[w] /\ wpc[w] = "closing" /\ ucs[w] = NoCall
    /\ status.is_crawling = 0 /\ status.last_run = Now

LiveForeignLease(w) ==
  /\ status.is_crawling = 1 /\ status.worker_pid # NoPid
  /\ PidAlive(status.worker_pid)
  /\ status.worker_pid # WorkerPid(w) /\ status.worker_pid # ParentPid(w)

\* C8: a worker whose check finds is_crawling = 1 with the pid of a live process
\* that is neither itself nor its parent exits in that step, with no status
\* call pending, leaving the status row, sources, articles and errors as they
\* were; an exited worker never takes another step.
C8_LiveLeaseExit ==
  [][\A w \in Workers :
       /\ (wpc[w] = "check" /\ LiveForeignLease(w) /\ wpc'[w] # "check")
            => /\ wpc'[w] = "exited" /\ ucs'[w] = NoCall
               /\ <<status, sources, articleRows, errorRows>>'
                    = <<status, sources, articleRows, errorRows>>
       /\ wpc[w] = "exited" => (wpc'[w] = "exited" /\ ucs'[w] = NoCall)]_vars

C8_Witness ==
  \E w \in Workers : \E v \in Workers :
    /\ wpc[w] = "exited" /\ InPhases(v)
    /\ status.is_crawling = 1 /\ status.worker_pid = WorkerPid(v)

\* C9: a worker that was ended by a terminate signal has itself written the
\* teardown update (is_crawling = 0, current_task = Idle, worker_pid = NULL).
C9_SignalRunsTeardown ==
  \A w \in Workers : wpc[w] = "killed" => tornDown[w]

\* ------------------------------------------------------- claims, SpecStore
\* C11: whenever evaluateArticle is running for a call, whether entered from
\* evaluateExistingArticle or from fullyProcessAndSaveArticle, the content it
\* was given has at least 200 characters.
C11_EvaluatorContentLength ==
  \A c \in Calls : calls[c].pc = "llm" => calls[c].len >= MinEvalLen

\* the host a request of a call goes to: the link itself while the redirect
\* is being resolved, the target address for the GET and the browser fetch
RequestHost(cl) ==
  IF cl.pc \in {"collecting", "resolving"} THEN Hostname(cl.url) ELSE Hostname(cl.target)
RequestStarts(c) ==
  /\ calls'[c].pc \in {"collecting", "resolving", "get", "browser"}
  /\ calls'[c].pc # calls[c].pc

\* C12: no step starts a request (redirect resolution, direct GET or browser
\* fetch) to a host that is in BlockedDomain when the request starts.
C12_NoRequestToBlockedHost ==
  [][\A c \in Calls : RequestStarts(c) =>
                            ~isBlockedDomain(blockedDomains, RequestHost(calls'[c]))]_vars

\* ------------------------------------------------------- claims, SpecDao
\* the host of a stored article, as the DomainQueue and the filter key it:
\* the host of resolved_url when there is one, else of url
ArticleHost(a) == Hostname(IF a.resolved_url # NoUrl THEN a.resolved_url ELSE a.url)
QueryLimits == 0..MaxLimit
QueryOffsets == 0..1
QueryScores == {0, ScoreThreshold10}

\* C13: whatever the tables hold and whatever limit, offset and minimum score
\* are asked for, no article returned by getArticles or getUnprocessedArticles
\* has its host in BlockedDomain.
C13_NoBlockedArticleReturned ==
  /\ \A limit \in QueryLimits, offset \in QueryOffsets, minScore \in QueryScores :
       \A a \in Range(getArticles(articles, blockedDomains, limit, offset, minScore)) :
         ~isBlockedDomain(blockedDomains, ArticleHost(a))
  /\ \A limit \in QueryLimits :
       \A a \in Range(unprocessedArticles(articles, blockedDomains, limit)) :
         ~isBlockedDomain(blockedDomains, ArticleHost(a))

\* both queries drop an article of a blocked host and return another one
C13_Witness ==
  /\ \E i \in 1..Len(articles) : isBlockedDomain(blockedDomains, ArticleHost(articles[i]))
  /\ Len(getArticles(articles, blockedDomains, MaxLimit, 0, 0)) = 1
  /\ Len(unprocessedArticles(articles, blockedDomains, MaxLimit)) = 1
  /\ Len(articles) = 2

ErrorsOf(errors, url) == {errors[i] : i \in {j \in 1..Len(errors) : errors[j].url = url}}
ErrorCount(errors, url) == Cardinality({j \in 1..Len(errors) : errors[j].url = url})
C14_Unique ==
  \A url \in DaoUrls :
    /\ Cardinality(RowIndex(articles, url)) <= 1
    /\ ErrorCount(articleErrors, url) <= 1
\* a logError call for url leaves exactly the failure it logged; any other
\* call leaves the ArticleError of url as it was, or removes it
C14_LatestFailure ==
  \A url \in DaoUrls :
    /\ \A phase \in {"CRAWL", "EVAL"}, message \in {"failed"} :
         DaoLogError(url, phase, message) =>
           /\ ErrorsOf(articleErrors', url)
                = {[url |-> url, phase |-> phase, message |-> message]}
           /\ ErrorCount(articleErrors', url) = 1
    /\ (~\E phase \in {"CRAWL", "EVAL"}, message \in {"failed"} :
           DaoLogError(url, phase, message)) =>
         ErrorsOf(articleErrors', url) \subseteq ErrorsOf(articleErrors, url)

\* C14: after any sequence of saveArticle, logError and clearError calls the
\* tables hold at most one Article and at most one ArticleError per URL, and
\* the ArticleError of a URL is the failure logged last for it.
C14_OneRecordPerUrl == [](C14_Unique) /\ [][C14_LatestFailure]_vars

\* both URLs were saved more than once and failed in both phases; the failure
\* of the first saved URL was logged after the one of the second
C14_Witness ==
  /\ Len(articles) = 2 /\ Len(articleErrors) = 2
  /\ articles[1].url = articleErrors[2].url
  /\ articleErrors[2].phase = "EVAL" /\ articleErrors[1].phase = "CRAWL"
  /\ articles[1].content = Num(LongLen) /\ articles[1].average_score # NullV

\* the record the claim expects to read back: supplied columns from the
\* input, the others from the prior row, or empty when there was none
Merged(prior, article) ==
  [c \in Columns \cup {"url"} |->
     IF c \in DOMAIN article THEN article[c]
     ELSE IF prior = NoRow THEN ColumnDefault(c) ELSE prior[c]]

\* C15: for every stored state and every input (a url with any set of
\* columns), getArticleByUrl after saveArticle returns the merged record, and
\* a second saveArticle of the same input changes nothing.
C15_SaveMerges ==
  \A article \in SaveInputs :
    LET saved == saveArticle(articles, article)
    IN /\ getArticleByUrl(saved, article.url)
            = Merged(getArticleByUrl(articles, article.url), article)
       /\ saveArticle(saved, article) = saved

\* ------------------------------------------------------- claims, SpecStore
\* averageScore >= score_threshold, which is false for NaN
AtLeastThreshold(avg) == avg.t = "num" /\ avg.v >= ScoreThreshold10

\* C16: when evaluateArticle has returned an evaluation, the webhook is
\* posted once if a webhook URL is configured and averageScore >=
\* score_threshold, and not at all otherwise; when it is posted the scores of
\* the evaluation are already in the article's row.
C16_NotifyOnceIffAboveThreshold ==
  [][\A c \in Calls :
       (calls[c].pc = "llm" /\ calls'[c].pc = "notify") =>
         /\ calls'[c].posted =
              IF webhookUrl /\ AtLeastThreshold(calls'[c].avg) THEN 1 ELSE 0
         /\ calls'[c].posted > 0 =>
              getArticleByUrl(articles', calls'[c].url).score_novelty.t = "num"]_vars

\* the step in which a call of evaluateExistingArticle or
\* fullyProcessAndSaveArticle completes successfully: the early return of
\* true, or the return after the notification
Succeeds(c) ==
  \/ calls'[c].pc = "true" /\ calls[c].pc # "true"
  \/ calls[c].pc = "notify" /\ calls'[c] = IdleCall

\* C17: when evaluateExistingArticle(U) or fullyProcessAndSaveArticle(U)
\* completes successfully, the store holds no ArticleError with url = U.
C17_NoErrorAfterSuccess ==
  [][\A c \in Calls :
       Succeeds(c) =>
         ErrorCount(articleErrors',
                    IF calls[c].pc = "notify" THEN calls[c].url ELSE calls'[c].url) = 0]_vars

\* C20: every stored Article has average_score and the five score_* columns
\* either all NULL or all non-NULL.
C20_ScoresAllOrNone ==
  \A i \in 1..Len(articles) :
    \/ \A c \in ScoreColumns \cup {"average_score"} : articles[i][c] = NullV
    \/ \A c \in ScoreColumns \cup {"average_score"} : articles[i][c] # NullV

\* ------------------------------------------------------- claims, SpecQueue
\* C18: when a cycle that reached Phase 3 has ended, every article that had
\* content to evaluate is scored, or has an ArticleError with phase EVAL
\* because its own evaluation failed, whatever happened to the other
\* articles of its batch or of earlier batches; and is_crawling = 0.
C18_EvalFailureIsLocal ==
  (cphase = "done" /\ "3" \in Range(phaseLog)) =>
    /\ status.is_crawling = 0
    /\ \A i \in ArticleIds :
         content[i] = "long" => (i \in scored \/ errs[i] = "EVAL")

\* batches of one: the evaluation of the first article failed, the one of a
\* later batch was saved, and the cycle has ended
C18_Witness ==
  /\ cphase = "done" /\ evalConcurrency = 1
  /\ \E i, j \in ArticleIds : i < j /\ errs[i] = "EVAL" /\ j \in scored
  /\ status.is_crawling = 0 /\ status.current_task = "Idle"

\* C19: a processor that fails (crawlAndSaveArticle returned after a failure,
\* or the processor itself threw) leaves an ArticleError with phase CRAWL for
\* its article and does not make processDomainQueue throw.
C19_CrawlFailureIsLocal ==
  [][\A id \in ArticleIds, outcome \in {"error", "reject"} :
       TaskSettle(id, outcome) => (errs'[id] = "CRAWL" /\ dpc' # "threw")]_vars

\* ------------------------------------------------- claims, lease (continued)
\* the place of a current_task value the worker writes in
\* Initializing, Phase 1, Phase 2, Phase 2.5, Phase 3, Idle; 0 for a value only
\* the API writes
TaskRank(t) ==
  CASE t = "Initializing" -> 1 [] t = "Phase 1" -> 2 [] t = "Phase 2" -> 3
    [] t = "Phase 2.5" -> 4 [] t = "Phase 3" -> 5 [] t = "Idle" -> 6
    [] OTHER -> 0

\* C21: a status update of a worker never moves current_task back from a later
\* value of Initializing, Phase 1, Phase 2, Phase 2.5, Phase 3, Idle to an
\* earlier one, and a worker whose cycle has ended (main resolved, or its
\* rejection was handled) has written Idle to current_task with its teardown
\* update, the last update of main that supplies current_task.
C21_TaskForwardToIdle ==
  /\ [][\A w \in Workers :
          (ucs[w] # NoCall /\ ucs'[w] = NoCall
             /\ TaskRank(status.current_task) > 0
             /\ TaskRank(status'.current_task) > 0)
            => TaskRank(status'.current_task) >= TaskRank(status.current_task)]_vars
  /\ [](\A w \in Workers : Ended(w) => tornDown[w])

\* ------------------------------------------------ claims, FairSpecQueue
\* the last instant the model's clock reaches
ClockHorizon == StartMs + MaxElapsedTicks * TickMs

\* the driver sleeps in its 50 ms pause when the clock of the model stops
PausedAtHorizon == dpc = "pause" /\ now + TickMs > ClockHorizon

\* C22: with positive limits and every processor settling, a processDomainQueue
\* that has entered its loop returns (within the clock horizon of the model);
\* the step that makes it return leaves every host queue empty, totalActive = 0
\* and no processor in flight; and an article leaves its host queue only by
\* being handed to the processor, once (it was not in flight before).
C22_QueueDrains ==
  /\ (cphase = "phase2" /\ dpc = "loop") ~> (dpc = "returned" \/ PausedAtHorizon)
  /\ [][(dpc # "returned" /\ dpc' = "returned")
          => (isEmpty' /\ activePromises' = {})]_vars
  /\ [][cphase' = "phase2" /\ cphase = "phase2" =>
          \A h \in DOMAIN queues :
            queues'[h] # queues[h] =>
              /\ queues'[h] = Tail(queues[h])
              /\ Head(queues[h]) \notin activePromises
              /\ activePromises' = activePromises \cup {Head(queues[h])}]_vars

\* ------------------------------------------- claims, SpecStore (continued)
\* a fully processed record: content of at least 200 characters and a score
FullyProcessed(rows, url) ==
  LET a == getArticleByUrl(rows, url)
  IN /\ a # NoRow /\ a.content.t = "num" /\ a.content.v >= MinEvalLen
     /\ a.average_score # NullV

\* C23: the feed collector skips the item of a link exactly when the articles
\* table holds a row of that link with content of at least 200 characters
\* (200 included) and a non-null average_score, and an item it emits is never
\* one of a fully processed article.
C23_SkipIffFullyProcessed ==
  /\ [](\A url \in StoreUrls :
          alreadyProcessed(articles, url) <=> FullyProcessed(articles, url))
  /\ [][\A c \in Calls, url \in StoreUrls :
          Collect(c, url) => ~FullyProcessed(articles, url)]_vars

\* C24: an item the collector has emitted (resolved and waiting for its Phase 2
\* crawl, or being crawled) has a row in the articles table with its url and
\* a resolved_url; the row is still there when the crawl of the item has
\* failed; and emitting an item changes no row that existed before.
C24_CollectedItemsPersisted ==
  /\ [](\A c \in Calls :
          (calls[c].op = "crawl" /\ calls[c].pc # "collecting")
            => LET a == getArticleByUrl(articles, calls[c].url)
               IN a # NoRow /\ a.resolved_url # NoUrl)
  /\ [][\A c \in Calls :
          (calls[c].op = "crawl" /\ calls'[c] = IdleCall)
            => getArticleByUrl(articles', calls[c].url) # NoRow]_vars
  /\ [][\A c \in Calls :
          (calls[c].pc \in {"idle", "collecting"} /\ calls'[c].pc = "queued")
            => \A i \in 1..Len(articles) :
                 i <= Len(articles') /\ articles'[i] = articles[i]]_vars

\* the resolved_url stored for a link, NoUrl when there is none
StoredResolvedUrl(rows, url) ==
  IF getArticleByUrl(rows, url) = NoRow THEN NoUrl
  ELSE getArticleByUrl(rows, url).resolved_url

\* a call enters the browser redirect resolver (fetchFinalUrl): from the
\* collector (resolveUrl) or from processArticle
ResolverStarts(c) ==
  /\ calls[c].pc \notin {"collecting", "resolving"}
  /\ calls'[c].pc \in {"collecting", "resolving"}

\* C25: the browser redirect resolver is started for a link only while the
\* articles table stores no resolved_url for it, from the collector as well as
\* from processArticle; and a processArticle that finds a stored resolved_url
\* fetches that address.
C25_ResolvedUrlReused ==
  /\ [][\A c \in Calls :
          ResolverStarts(c) => StoredResolvedUrl(articles, calls'[c].url) = NoUrl]_vars
  /\ [][\A c \in Calls :
          (calls[c].pc \in {"idle", "queued"} /\ calls'[c].pc = "get"
             /\ StoredResolvedUrl(articles, calls'[c].url) # NoUrl)
            => calls'[c].target = StoredResolvedUrl(articles, calls'[c].url)]_vars

\* ------------------------------------------------- claims, SpecCollect
Returned == sourceIndex < 0

\* the items the feeds emitted, in collection order (source order)
RECURSIVE Emitted(_)
Emitted(k) ==
  IF k = 0 THEN <<>>
  ELSE Emitted(k - 1) \o (IF feedResults[k].ok THEN feedResults[k].items ELSE <<>>)

CollectionKey(a) == IF a.resolvedUrl # NoUrl THEN a.resolvedUrl ELSE a.url

\* C26: the list collectAllArticleUrls returns has no two entries of one key
\* resolvedUrl || url; its entries are, in collection order, the first
\* occurrence of each key among the items the feeds emitted; every emitted key
\* is in it; and a feed whose fetch or parse failed adds nothing and takes
\* nothing away from the items of the other feeds.
C26_CollectedListDeduplicated ==
  Returned =>
    LET all == Emitted(Len(feedResults))
        First(j) == \A i \in 1..(j - 1) : CollectionKey(all[i]) # CollectionKey(all[j])
        firsts == {j \in 1..Len(all) : First(j)}
    IN /\ \A j, k \in 1..Len(unique) :
            j # k => CollectionKey(unique[j]) # CollectionKey(unique[k])
       /\ Len(unique) = Cardinality(firsts)
       /\ \A n \in 1..Len(unique) :
            \E j \in firsts :
              /\ unique[n] = all[j]
              /\ Cardinality({i \in firsts : i < j}) = n - 1
       /\ \A j \in 1..Len(all) :
            \E n \in 1..Len(unique) : CollectionKey(unique[n]) = CollectionKey(all[j])

\* C26 witness: a feed failed and the other feed listed two links of one key;
\* the list returned holds the first of the two
C26_Witness ==
  /\ Returned
  /\ \E k \in 1..Len(feedResults) : ~feedResults[k].ok
  /\ Len(allArticles) = 2 /\ Len(unique) = 1
  /\ allArticles[1].url # allArticles[2].url
  /\ unique[1] = allArticles[1]

\* ------------------------------------------------- claims, lease (start, stop)
LiveLease ==
  /\ status.is_crawling = 1 /\ status.worker_pid # NoPid
  /\ PidAlive(status.worker_pid)

SpawnedByStart == {w \in Workers : origin[w] = "api" /\ Alive(w)}

\* C27: POST /api/crawl spawns a worker only in a state without a live lease
\* (is_crawling = 1 with the pid of a live process), and at most one worker
\* spawned by POST /api/crawl is alive at any time.
C27_StartOnlyWithoutLiveLease ==
  /\ [][\A w \in Workers :
          (origin[w] = "none" /\ origin'[w] = "api") => ~LiveLease]_vars
  /\ [](Cardinality(SpawnedByStart) <= 1)

\* C28: once the status update of DELETE /api/crawl is written, and as long as
\* no worker is started afterwards (by POST /api/crawl or by hand), the row
\* has is_crawling = 0 and worker_pid = NULL.
C28_StoppedStaysStopped ==
  stopReturned => (status.is_crawling = 0 /\ status.worker_pid = NoPid)


\* ------------------------------------------------------- claims, SpecFetch
\* the browser fallback of call c fails in this step: fetchWithBrowser threw,
\* a bot-protection match included
FallbackFails(c) ==
  \/ BrowserSettle(c, "fail", FALSE, LongLen)
  \/ \E redirected \in BOOLEAN : BrowserSettle(c, "bot", redirected, LongLen)
\* the call ends in this step in the catch block of its caller
RequestFails(c) ==
  /\ calls'[c] = IdleCall
  /\ articles' = articles
  /\ articleErrors' # <<>>
  /\ articleErrors'[Len(articleErrors')].url = calls[c].url
BlockedRow(cl) == [domain |-> Hostname(cl.target), reason |-> BrowserFetchFailed(cl.status)]
\* a GET answered 404 fails the request with no browser fetch and no change
\* of BlockedDomain
NotFoundFails ==
  \A c \in Calls : GetSettle(c, 404, LongLen) =>
    RequestFails(c) /\ blockedDomains' = blockedDomains

\* C29 as stated: when the GET was answered 401 or 403 and the browser
\* fallback fails, the request fails and BlockedDomain holds the target host
\* with the reason 'HTTP {code} + browser fetch failed'; a 404 fails the
\* request with no browser fetch and no change of BlockedDomain.
C29_AsStated ==
  [][/\ \A c \in Calls : (calls[c].forbidden /\ FallbackFails(c)) =>
          RequestFails(c) /\ BlockedRow(calls[c]) \in blockedDomains'
     /\ NotFoundFails]_vars

\* C29: when the GET was answered 401 or 403 and the browser fallback fails,
\* the request fails and the target host is in BlockedDomain afterwards: with
\* the reason 'HTTP {code} + browser fetch failed' if the host had no row, not
\* even one written by a bot-protection match of this fetch, and else with the
\* row it had; the rows of other hosts are kept. A 404 fails the request with
\* no browser fetch and no change of BlockedDomain.
C29_BlockedAfterFailedFallback ==
  [][/\ \A c \in Calls : (calls[c].forbidden /\ FallbackFails(c)) =>
          LET host == Hostname(calls[c].target)
              botRow == [domain |-> host, reason |-> BotProtection]
          IN /\ RequestFails(c)
             /\ isBlockedDomain(blockedDomains', host)
             /\ blockedDomains \subseteq blockedDomains'
             /\ ~isBlockedDomain(blockedDomains, host) =>
                  \/ BlockedRow(calls[c]) \in blockedDomains'
                  \/ /\ botRow \in blockedDomains'
                     /\ BrowserSettle(c, "bot", FALSE, LongLen)
     /\ NotFoundFails]_vars

\* both codes have been recorded: one host is blocked for a 401, the other
\* for a 403, each after a failed browser fetch, and the last request failed
C29_Witness ==
  /\ \E d \in blockedDomains : d.reason = BrowserFetchFailed(401)
  /\ \E d \in blockedDomains : d.reason = BrowserFetchFailed(403)
  /\ articleErrors # <<>>
  /\ articleErrors[Len(articleErrors)].message = "failed"


\* fetchWithBrowser of call c ends on a bot-protection page in this step
BotMatch(c) ==
  \E redirected \in BOOLEAN : BrowserSettle(c, "bot", redirected, LongLen)
\* a bot-protection match has been recorded (every call of SpecFetch is for
\* an address of StoreUrls)
BotMatched == \E d \in blockedDomains : d.reason = BotProtection

\* C30: a bot-protection match fails the request with a CRAWL ArticleError
\* and leaves the host the article was requested from in BlockedDomain; once
\* a match is recorded, getUnprocessedArticles returns no row of the article
\* and no request (redirect resolution, GET, browser fetch) is started for it.
C30_BotProtectionExcludes ==
  /\ [][\A c \in Calls : BotMatch(c) =>
          /\ RequestFails(c)
          /\ articleErrors'[Len(articleErrors')].phase = "CRAWL"
          /\ isBlockedDomain(blockedDomains', Hostname(calls[c].target))]_vars
  /\ [](BotMatched =>
          \A limit \in 0..MaxLimit :
            \A a \in Range(unprocessedArticles(articles, blockedDomains, limit)) :
              a.url \notin StoreUrls)
  /\ [][BotMatched => \A c \in Calls : ~RequestStarts(c)]_vars


\* ------------------------------------------------------- claims, SpecBackfill
\* C31: backfillImages visits at most 100 articles, and no step of it
\* changes a column other than image_url of any row, adds a row to the
\* articles table or changes the article_errors table.
C31_BackfillOnlyImageUrl ==
  /\ [](Len(backfill.list) <= BackfillLimit)
  /\ [][/\ articleErrors' = articleErrors
        /\ Len(articles') = Len(articles)
        /\ \A i \in 1..Len(articles) :
             \A c \in (Columns \cup {"url"}) \ {"image_url"} :
               articles'[i][c] = articles[i][c]]_vars

\* --------------------------------------- direct calls of the queue manager
\* The articles a direct caller passes: MaxQueued ids, two per host
MaxQueued == 4
\* The ticks of the clock between the calls of a direct caller
MaxManagerTicks == 2
QueuedIds == 1..MaxQueued

\* the lists addArticles receives: up to two new articles, any order
AddLists ==
  {s \in UNION {[1..n -> QueuedIds] : n \in 1..2} :
     \A j, k \in 1..Len(s) : j # k => s[j] # s[k]}

\* what the groups of the other components keep while the manager is called
tableVars == <<articles, articleErrors, blockedDomains, webhookUrl, calls, evalList>>
driverRest == <<dqConfig, activePromises, dpc, wakeAt, cphase, feedVars, evalVars,
                evalConcurrency, storeVars, dispatchLog, phaseLog>>
otherVars == <<lvars, tableVars, collectVars, backfill>>

\* every id is in a queue at most once
Queued(id) == \E d \in DOMAIN queues : \E k \in 1..Len(queues[d]) : queues[d][k] = id

\* domain-queue.ts 60-69: addArticles(list)
ManagerAdd(list) ==
  /\ \A k \in 1..Len(list) : ~Queued(list[k])
  /\ LET m == addArticles(list, queues, activeCounts, domainOrder)
     IN /\ queues' = m.queues
        /\ activeCounts' = m.activeCounts
        /\ domainOrder' = m.domainOrder
  /\ returned' = [op |-> "addArticles", id |-> 0]
  /\ UNCHANGED <<lastRequestTime, totalActive, now>>

\* domain-queue.ts 74-101: getNextAvailable(), null is id 0
ManagerNext ==
  /\ LET domain == getNextAvailable(now)
     IN IF domain = NoHost
          THEN /\ returned' = [op |-> "getNextAvailable", id |-> 0]
               /\ UNCHANGED dqVars
          ELSE /\ returned' = [op |-> "getNextAvailable", id |-> Head(queues[domain])]
               /\ queues' = [queues EXCEPT ![domain] = Tail(@)]
               /\ activeCounts' = Put(activeCounts, domain, Get(activeCounts, domain, 0) + 1)
               /\ lastRequestTime' = Put(lastRequestTime, domain, now)
               /\ totalActive' = totalActive + 1
               /\ UNCHANGED domainOrder
  /\ UNCHANGED now

\* domain-queue.ts 134-139: markComplete(article), for any article
ManagerComplete(id) ==
  /\ LET m == markComplete(id)
     IN /\ activeCounts' = m.activeCounts
        /\ totalActive' = m.totalActive
  /\ returned' = [op |-> "markComplete", id |-> id]
  /\ UNCHANGED <<queues, lastRequestTime, domainOrder, now>>

\* Date.now() advances between two calls
ManagerTick ==
  /\ now + TickMs <= StartMs + MaxManagerTicks * TickMs
  /\ now' = now + TickMs
  /\ UNCHANGED <<dqVars, returned>>

ManagerCalls ==
  \/ \E list \in AddLists : ManagerAdd(list)
  \/ ManagerNext
  \/ \E id \in QueuedIds : ManagerComplete(id)
  \/ ManagerTick

ManagerStep ==
  /\ ManagerCalls
  /\ UNCHANGED <<driverRest, otherVars, feed, browserInstance, browsers, bcalls>>

ManagerInit ==
  /\ QueueStart /\ feedsPending = 1 /\ feedConcurrency = 1
  /\ LeaseStart /\ sources = {} /\ StoreIdle /\ CollectIdle
SpecManager == ManagerInit /\ [][ManagerStep]_vars

\* ------------------------------------------------------------------ C32
\* The instants at which the two queries are compared: the clock of the
\* cycle, one tick before it and one tick after it
QueryInstants == {now - TickMs, now, now + TickMs}

\* hosts with queued items and spare per-host capacity
OpenHosts ==
  {d \in DOMAIN queues :
     /\ Len(queues[d]) > 0
     /\ Get(activeCounts, d, 0) < dqConfig.maxConcurrentPerDomain}

RemainingDelay(d, t) ==
  dqConfig.domainDelayMs - (t - Get(lastRequestTime, d, 0))

\* C32: getWaitTime returns 0 exactly when getNextAvailable at the same
\* instant would return an article; otherwise it returns the smallest
\* remaining delay among the hosts with queued items and spare per-host
\* capacity, or 100 when there is no such host or the global cap is reached.
C32_WaitTimeMatchesNextAvailable ==
  \A t \in QueryInstants :
    /\ (getWaitTime(t) = 0) <=> (getNextAvailable(t) # NoHost)
    /\ getNextAvailable(t) = NoHost =>
         IF totalActive >= dqConfig.maxTotalConcurrent \/ OpenHosts = {}
           THEN getWaitTime(t) = CheckSoonMs
           ELSE /\ \E d \in OpenHosts : getWaitTime(t) = RemainingDelay(d, t)
                /\ \A d \in OpenHosts : getWaitTime(t) <= RemainingDelay(d, t)

\* after a dispatch, below the global cap, two open hosts have different
\* remaining delays at one of the instants and the smaller one is returned
C32_Witness ==
  /\ totalActive < dqConfig.maxTotalConcurrent
  /\ returned.op = "getNextAvailable" /\ returned.id # 0
  /\ \E t \in QueryInstants : \E d1, d2 \in OpenHosts :
       /\ getNextAvailable(t) = NoHost
       /\ RemainingDelay(d1, t) < RemainingDelay(d2, t)
       /\ getWaitTime(t) = RemainingDelay(d1, t)

\* ------------------------------------------------------------------ C33
\* the positions in insertion order of the hosts getNextAvailable may serve
EligiblePositions ==
  {i \in 1..Len(domainOrder) :
     /\ Len(queues[domainOrder[i]]) > 0
     /\ Get(activeCounts, domainOrder[i], 0) < dqConfig.maxConcurrentPerDomain
     /\ now - Get(lastRequestTime, domainOrder[i], 0) >= dqConfig.domainDelayMs}

FirstEligible == domainOrder[CHOOSE i \in EligiblePositions : \A j \in EligiblePositions : i <= j]

\* the step is a call of getNextAvailable that is seen in the state
NextAvailableCalled ==
  /\ returned'.op = "getNextAvailable"
  /\ returned' # returned \/ dqVars' # dqVars

IsPrefix(s, t) == Len(s) <= Len(t) /\ \A k \in 1..Len(s) : s[k] = t[k]

\* C33: getNextAvailable returns the head of the queue of the first host in
\* order of first insertion that is eligible, and in the same step pops it,
\* increments activeCount of the host and totalActive and sets lastDispatch;
\* it returns null and changes nothing when no host is eligible or the global
\* cap is reached; the queue of a host only grows at its tail and shrinks at
\* its head, so the articles of a host are dispatched in the order added.
C33_FirstEligibleHeadDispatched ==
  /\ [][NextAvailableCalled =>
          IF totalActive >= dqConfig.maxTotalConcurrent \/ EligiblePositions = {}
            THEN returned'.id = 0 /\ UNCHANGED dqVars
            ELSE /\ returned'.id = Head(queues[FirstEligible])
                 /\ queues' = [queues EXCEPT ![FirstEligible] = Tail(@)]
                 /\ activeCounts' = [activeCounts EXCEPT ![FirstEligible] = @ + 1]
                 /\ totalActive' = totalActive + 1
                 /\ DOMAIN lastRequestTime' = DOMAIN lastRequestTime \cup {FirstEligible}
                 /\ \A d \in DOMAIN lastRequestTime' :
                      lastRequestTime'[d] = IF d = FirstEligible THEN now
                                            ELSE lastRequestTime[d]
                 /\ UNCHANGED domainOrder]_vars
  /\ [][\A d \in DOMAIN queues :
          \/ IsPrefix(queues[d], queues'[d])
          \/ queues'[d] = Tail(queues[d])]_vars
  /\ [](\A i, j \in 1..Len(domainOrder) : i # j => domainOrder[i] # domainOrder[j])
  /\ [](DOMAIN queues = {domainOrder[i] : i \in 1..Len(domainOrder)})

\* the second host in insertion order has just been served from a queue of
\* two, the first host being not eligible with a non-empty queue
C33_Witness ==
  /\ Len(domainOrder) = 2
  /\ returned.op = "getNextAvailable" /\ returned.id # 0
  /\ extractDomain(QueuedArticle(returned.id)) = domainOrder[2]
  /\ Len(queues[domainOrder[1]]) > 0
  /\ Len(queues[domainOrder[2]]) > 0
  /\ Get(lastRequestTime, domainOrder[2], 0) = now

\* ------------------------------------------------------------------ C34
\* C34: after any sequence of addArticles, getNextAvailable and markComplete
\* calls, markComplete for an article that is not active or whose host was
\* never added included, activeCount of every host and totalActive are never
\* below zero.
C34_CountersNeverNegative ==
  /\ totalActive >= 0
  /\ \A d \in DOMAIN activeCounts : activeCounts[d] >= 0

\* markComplete has just been called for an article of a host that was never
\* added, with nothing active
C34_Witness ==
  /\ returned.op = "markComplete"
  /\ extractDomain(QueuedArticle(returned.id)) \notin DOMAIN queues
  /\ extractDomain(QueuedArticle(returned.id)) \in DOMAIN activeCounts
  /\ totalActive = 0
  /\ domainOrder # <<>>

\* ------------------------------------------------------------------ C35
\* C35: during Phase 3 at most eval_concurrency evaluations are in flight at
\* any instant, and the evaluations of a batch start only after every
\* evaluation of the previous batch has settled.
C35_EvalBatchesBounded ==
  /\ [](Cardinality(evalActive) <= evalConcurrency)
  /\ [][evalActive' \subseteq evalActive \/ evalActive = {}]_vars

\* a full batch is in flight while a later batch waits
C35_Witness ==
  /\ cphase = "phase3"
  /\ Cardinality(evalActive) = MaxEvalConcurrency
  /\ evalConcurrency = MaxEvalConcurrency
  /\ evalQueue # <<>>
  /\ \E k \in 1..Len(evalQueue) : NeedsEvaluator(evalQueue[k])

\* ------------------------------------------------ collectFeedUrls, one feed
\* rss.ts 109: the size of a batch of the await loop
ResolveBatch == 5
\* The items of one feed
MaxItems == 6

\* What the callback of the map does for an item up to its first await: it
\* returns null for an article already processed (rss.ts 89-92), resolveUrl
\* returns at once for a direct link or a decodable aggregator link (rss.ts
\* 39-41), or fetchFinalUrl is called (rss.ts 42)
ItemKinds == {"processed", "direct", "browser"}
ItemLists == UNION {[1..n -> ItemKinds] : n \in 0..MaxItems}

otherThanFeed == <<qvars, lvars, tableVars, collectVars, backfill, returned,
                   browserInstance, browsers, bcalls>>

\* rss.ts 84-106: feed.items.filter(...).map(async ...) calls the callback of
\* every item; each runs to its first await
FeedMap(items) ==
  /\ feed.pc = "idle"
  /\ feed' = [pc |-> "loop", i |-> 0,
              promises |-> [k \in 1..Len(items) |->
                              IF items[k] = "browser" THEN "resolving"
                              ELSE IF items[k] = "processed" THEN "null"
                              ELSE "resolved"]]

\* part_005 36-69: fetchFinalUrl returns, the final address or the url itself
ResolveSettle(k) ==
  /\ feed.pc = "loop"
  /\ k \in 1..Len(feed.promises)
  /\ feed.promises[k] = "resolving"
  /\ feed' = [feed EXCEPT !.promises[k] = "resolved"]

\* rss.ts 109-115: one iteration of the loop, after its Promise.all
FeedBatch ==
  /\ feed.pc = "loop"
  /\ feed.i < Len(feed.promises)
  /\ \A k \in (feed.i + 1)..Min(feed.i + ResolveBatch, Len(feed.promises)) :
       feed.promises[k] # "resolving"
  /\ feed' = [feed EXCEPT !.i = @ + ResolveBatch]

\* rss.ts 129: return articles
FeedReturn ==
  /\ feed.pc = "loop"
  /\ feed.i >= Len(feed.promises)
  /\ feed' = [feed EXCEPT !.pc = "returned"]

FeedNext ==
  \/ \E items \in ItemLists : FeedMap(items) /\ UNCHANGED otherThanFeed
  \/ \E k \in 1..MaxItems : ResolveSettle(k) /\ UNCHANGED otherThanFeed
  \/ FeedBatch /\ UNCHANGED otherThanFeed
  \/ FeedReturn /\ UNCHANGED otherThanFeed

FeedInit == CollectIdle /\ StoreIdle /\ QueueStart /\ LeaseStart /\ sources = {}
SpecFeed == FeedInit /\ [][FeedNext]_vars

\* ------------------------------------------------------------------ C36
Resolving == {k \in 1..Len(feed.promises) : feed.promises[k] = "resolving"}

\* C36: while one feed is being collected, at most 5 URL resolutions of the
\* items of that feed are in flight at any instant.
C36_AtMostFiveResolving == Cardinality(Resolving) <= ResolveBatch

\* --------------------------------------------- the browser module, part_005
\* The fetches that call getBrowser concurrently, the browsers ever launched
MaxGetters == 2
MaxBrowsers == 3
Getters == 1..MaxGetters
\* the caller of closeBrowser
Closer == 0

\* a call that has not started; pc is the await the call is suspended at
NoBrowserCall == [pc |-> "idle", b |-> NoBrowser]
BCall(p) == Get(bcalls, p, NoBrowserCall)

\* browserInstance.isConnected()
isConnected(b) == browsers[b] = "open"

otherThanBrowser == <<qvars, lvars, tableVars, collectVars, backfill, returned, feed>>

\* part_005 6-13: getBrowser up to its first await: return the instance
\* (line 25), await the close of a disconnected one (11), or call launch (14)
GetBrowserEnter(p) ==
  /\ BCall(p).pc = "idle"
  /\ bcalls' = Put(bcalls, p,
       IF browserInstance = NoBrowser THEN [pc |-> "launch", b |-> NoBrowser]
       ELSE IF ~isConnected(browserInstance) THEN [pc |-> "close", b |-> browserInstance]
       ELSE [pc |-> "returned", b |-> browserInstance])
  /\ UNCHANGED <<browserInstance, browsers>>

\* part_005 10-13: the close of the old instance settles; launch is called
GetBrowserClosed(p) ==
  /\ BCall(p).pc = "close"
  /\ browsers' = [browsers EXCEPT ![BCall(p).b] = "closed"]
  /\ bcalls' = Put(bcalls, p, [pc |-> "launch", b |-> NoBrowser])
  /\ UNCHANGED browserInstance

\* part_005 14-25: chromium.launch resolves, the assignment and the return
GetBrowserLaunched(p) ==
  /\ BCall(p).pc = "launch"
  /\ Len(browsers) < MaxBrowsers
  /\ browsers' = Append(browsers, "open")
  /\ browserInstance' = Len(browsers) + 1
  /\ bcalls' = Put(bcalls, p, [pc |-> "returned", b |-> Len(browsers) + 1])

\* the fetch that called getBrowser ends; part_005 53-57 resets the variable
\* when the browser it used was closed under it
FetchEnd(p) ==
  /\ p \in Getters
  /\ BCall(p).pc = "returned"
  /\ bcalls' = Put(bcalls, p, NoBrowserCall)
  /\ browserInstance' = IF isConnected(BCall(p).b) THEN browserInstance ELSE NoBrowser
  /\ UNCHANGED browsers

\* the browser process of the instance dies
Disconnect ==
  /\ browserInstance # NoBrowser
  /\ isConnected(browserInstance)
  /\ browsers' = [browsers EXCEPT ![browserInstance] = "disconnected"]
  /\ UNCHANGED <<browserInstance, bcalls>>

\* part_005 177-179: closeBrowser up to its await
CloseBrowserEnter ==
  /\ BCall(Closer).pc \in {"idle", "returned"}
  /\ bcalls' = Put(bcalls, Closer,
       IF browserInstance # NoBrowser THEN [pc |-> "close", b |-> browserInstance]
       ELSE [pc |-> "returned", b |-> NoBrowser])
  /\ UNCHANGED <<browserInstance, browsers>>

\* part_005 179-181: the close settles, browserInstance = null, return
CloseBrowserClosed ==
  /\ BCall(Closer).pc = "close"
  /\ browsers' = [browsers EXCEPT ![BCall(Closer).b] = "closed"]
  /\ browserInstance' = NoBrowser
  /\ bcalls' = Put(bcalls, Closer, [pc |-> "returned", b |-> NoBrowser])

BrowserNext ==
  \/ \E p \in Getters : GetBrowserEnter(p) /\ UNCHANGED otherThanBrowser
  \/ \E p \in Getters : GetBrowserClosed(p) /\ UNCHANGED otherThanBrowser
  \/ \E p \in Getters : GetBrowserLaunched(p) /\ UNCHANGED otherThanBrowser
  \/ \E p \in Getters : FetchEnd(p) /\ UNCHANGED otherThanBrowser
  \/ Disconnect /\ UNCHANGED otherThanBrowser
  \/ CloseBrowserEnter /\ UNCHANGED otherThanBrowser
  \/ CloseBrowserClosed /\ UNCHANGED otherThanBrowser

BrowserInit == CollectIdle /\ StoreIdle /\ QueueStart /\ LeaseStart /\ sources = {}
SpecBrowser == BrowserInit /\ [][BrowserNext]_vars

\* ------------------------------------------------------------------ C37
OpenBrowsers == {b \in 1..Len(browsers) : browsers[b] = "open"}

\* C37: at any instant at most one browser launched through getBrowser is
\* alive, also when several fetches call getBrowser while there is no
\* instance or the instance is disconnected, and when closeBrowser returns
\* no browser launched through getBrowser is open.
C37_OneBrowserAlive ==
  /\ [](Cardinality(OpenBrowsers) <= 1)
  /\ [][BCall(Closer).pc = "close" /\ Get(bcalls', Closer, NoBrowserCall).pc = "returned"
          => OpenBrowsers' = {}]_vars

\* ------------------------------------------------------------------ C39
\* the columns an evaluation writes
EvaluationColumns == ScoreColumns \cup {"average_score"}

\* C39: in the worker pipeline, once the scores of an article have been
\* stored no later cycle calls the Evaluator or posts a webhook for that URL
\* (so each URL leads to at most one post), and no stored score is
\* overwritten.
C39_EvaluatedOnce ==
  [][\A c \in Calls :
       LET row == getArticleByUrl(articles, calls'[c].url)
           after == getArticleByUrl(articles', calls'[c].url)
       IN calls'[c].op = "eval" =>
            /\ (calls[c].pc # "llm" /\ calls'[c].pc = "llm")
                 => \A k \in EvaluationColumns : row[k] = NullV
            /\ calls'[c].posted > calls[c].posted
                 => \A k \in EvaluationColumns : row[k] = NullV
            /\ calls[c].pc = "llm"
                 => \A k \in EvaluationColumns : row[k] # NullV => after[k] = row[k]]_vars

\* ------------------------------------------------------------------ C40
\* C40: processArticle stores a resolved_url for an aggregator URL only when
\* the resolution succeeded: no row of an aggregator link has the link itself
\* as its resolved_url, and the step that ends a resolution does not write it.
C40_ResolvedUrlOnlyOnSuccess ==
  /\ [](\A i \in 1..Len(articles) :
          Hostname(articles[i].url) = AggregatorHost
            => articles[i].resolved_url # articles[i].url)
  /\ [][\A c \in Calls :
          calls[c].pc = "resolving" /\ calls'[c].pc # "resolving"
            => getArticleByUrl(articles', calls[c].url).resolved_url # calls[c].url]_vars

\* ------------------------------------- Phase 3 over a store with a backlog
\* The store of a cycle with no new articles: one article that can be
\* evaluated and, newer than it, rows that Phase 3 cannot finish, of one of
\* three kinds: content under 200 characters, no content, a blocked host
BacklogKinds == {"short", "none", "blocked"}
PendingUrl == Url(HostB, 0)
BacklogRow(kind, k) ==
  [c \in Columns \cup {"url"} |->
     CASE c = "url" -> Url(IF kind = "blocked" THEN HostA ELSE HostB, k)
       [] c = "content" -> IF kind = "short" THEN Num(ShortLen)
                           ELSE IF kind = "none" THEN NullV ELSE Num(LongLen)
       [] OTHER -> ColumnDefault(c)]
PendingRow ==
  [c \in Columns \cup {"url"} |->
     CASE c = "url" -> PendingUrl
       [] c = "content" -> Num(LongLen)
       [] OTHER -> ColumnDefault(c)]

\* the answer of the model when the LLM call succeeds
GoodResponse == [novelty |-> Num(5), importance |-> Num(5)]

\* worker.ts 124-139 with article.ts 237-280: evaluateExistingArticle for
\* every entry of the list, the LLM call succeeding: the rows and the errors
\* after the upserts and the clearError calls of the entries it evaluates
EvaluateAll(list, rows, errors) ==
  LET listed == {list[k].url : k \in 1..Len(list)}
      Evaluated(a) ==
        /\ a.url \in listed
        /\ ~(a.content = NullV \/ a.content.v < MinEvalLen)
        /\ ~(a.average_score # NullV)
      Upsert(a) ==
        saveArticle(<<a>>, EvaluationRecord(NewCall("eval", a.url), GoodResponse))[1]
      Kept(e) == \A i \in 1..Len(rows) : Evaluated(rows[i]) => rows[i].url # e.url
  IN [rows |-> [i \in 1..Len(rows) |->
                  IF Evaluated(rows[i]) THEN Upsert(rows[i]) ELSE rows[i]],
      errors |-> SelectSeq(errors, Kept)]

\* main of a cycle
cycleRest == <<dqVars, now, dqConfig, activePromises, dpc, wakeAt, feedVars, evalVars,
               evalConcurrency, storeVars, dispatchLog, phaseLog>>

\* worker.ts 43-105: a worker is started, its feeds list nothing to crawl and
\* it reaches Phase 3
CycleStart ==
  /\ cphase \in {"start", "done"}
  /\ cphase' = "phase3"
  /\ UNCHANGED <<articles, articleErrors, blockedDomains, webhookUrl, calls, evalList>>

\* worker.ts 111-151: the Phase 3 of the cycle, and its end
Phase3Cycle ==
  /\ cphase = "phase3"
  /\ cphase' = "done"
  /\ LET done == EvaluateAll(unprocessedArticles(articles, blockedDomains, Phase3Limit),
                             articles, articleErrors)
     IN /\ articles' = done.rows
        /\ articleErrors' = done.errors
  /\ UNCHANGED <<blockedDomains, webhookUrl, calls, evalList>>

BacklogNext ==
  \/ CycleStart /\ UNCHANGED <<cycleRest, lvars, cvars>>
  \/ Phase3Cycle /\ UNCHANGED <<cycleRest, lvars, cvars>>

BacklogInit ==
  /\ \E n \in 0..Phase3Limit, kind \in BacklogKinds :
       articles = <<PendingRow>> \o [k \in 1..n |-> BacklogRow(kind, k)]
  /\ articleErrors = <<>>
  /\ blockedDomains = {[domain |-> HostA, reason |-> BotProtection]}
  /\ webhookUrl = FALSE
  /\ calls = [c \in Calls |-> IdleCall]
  /\ evalList = {}
  /\ CollectIdle /\ QueueStart /\ feedsPending = 1 /\ feedConcurrency = 1
  /\ dqConfig = [maxConcurrentPerDomain |-> 1, maxTotalConcurrent |-> 1, domainDelayMs |-> 0]
  /\ LeaseStart /\ sources = {}

\* the worker is started again and again (cron and the API start it whenever
\* none runs), and the Phase 3 of every cycle comes to its end
FairSpecBacklog ==
  /\ BacklogInit /\ [][BacklogNext]_vars
  /\ WF_vars(CycleStart /\ UNCHANGED <<cycleRest, lvars, cvars>>)
  /\ []<>(cphase # "phase3")

\* ------------------------------------------------------------------ C38
Evaluable(url) ==
  LET a == getArticleByUrl(articles, url)
  IN /\ a # NoRow
     /\ a.content # NullV /\ a.content.v >= MinEvalLen
     /\ a.average_score = NullV
     /\ ~isBlockedDomain(blockedDomains,
                         Hostname(IF a.resolved_url # NoUrl THEN a.resolved_url ELSE a.url))

\* C38: across repeated cycles with no new articles, a stored article with
\* at least 200 characters of content, no score and an unblocked host, for
\* which the LLM call succeeds, is eventually evaluated, however many other
\* unprocessed articles are in the store.
C38_EvaluableEventuallyScored ==
  Evaluable(PendingUrl) ~> (getArticleByUrl(articles, PendingUrl).average_score # NullV)

====
